---------------------------- MODULE Spec2Model ----------------------------
(***************************************************************************)
(* Model of the PBR converter of the JE2BE resource pack converter        *)
(* (src/converters/pbr_converter.py): texture set discovery, the          *)
(* specular -> MER transcoder, the normal map transcoder, and the         *)
(* conversion statistics they update.                                     *)
(*                                                                         *)
(* Pixel arithmetic.  The code computes in IEEE doubles and converts to   *)
(* uint8 with astype, which truncates.  The model computes the same bytes *)
(* in exact integer arithmetic:                                           *)
(*   roughness: (1 - s/255)^2 * 255 = (255 - s)^2 / 255.  The value is an *)
(*     integer only for s = 0 and s = 255 (both exact in doubles) and is  *)
(*     otherwise at least 1/255 away from one, so the truncated double    *)
(*     equals the floor of the exact quotient.                            *)
(*   normal z: with a = 2x - 255, b = 2y - 255 and D = 255^2 - a^2 - b^2, *)
(*     ((sqrt(max(0,D))/255 + 1) / 2) * 255 = (sqrt(max(0,D)) + 255) / 2. *)
(*     D = 7 (mod 8), so D is never 0 nor a perfect square, the value is  *)
(*     never an integer when D > 0, and its floor is                      *)
(*     (floor(sqrt(D)) + 255) div 2.                                      *)
(***************************************************************************)
EXTENDS Integers, Sequences, FiniteSets, TLC

VARIABLES
    files,             \* the source tree: source path -> decoded image, or Corrupt
    outputs,           \* the output tree: output path -> image written
    unwritable,        \* output paths whose creation or write fails
    conversion_stats,  \* PBRConverter.conversion_stats
    last_call,         \* the last call made on the converter and its return value
    texture_files,     \* detect_pbr_textures: the enumerated files
    texture_index,     \* detect_pbr_textures: index of the next file of the loop
    pbr_sets,          \* detect_pbr_textures: the dict being built
    pc,                \* position in detect_pbr_textures or convert_pbr_textures
    texture_dir_exists, \* whether the source directory exists
    texture_mappings,  \* convert_pbr_textures: the mapping table passed, or None
    batch,             \* convert_pbr_textures: the locals of the loop over the sets
    runs,              \* convert_pbr_textures calls made since the counters were zeroed
    previous_sets,     \* what the preceding detect_pbr_textures call returned
    workers,           \* concurrent workers: each one's set, position and register
    pack               \* convert_resource_pack: stage, result, temporary directories

caller_vars == <<runs, previous_sets, workers, pack>>

batch_vars == <<texture_dir_exists, texture_mappings, batch, caller_vars>>

vars == <<files, outputs, unwritable, conversion_stats, last_call,
          texture_files, texture_index, pbr_sets, pc, batch_vars>>

(***************************************************************************)
(* Bounds of the model.                                                    *)
(***************************************************************************)
MaxCalls == 2
MaxPixels == 4
MaxFiles == 3
MaxRuns == 2

(***************************************************************************)
(* Program constants.                                                      *)
(***************************************************************************)
MaxByte == 255
MetalIdMin == 230
metallic_threshold == 10

Byte == 0..MaxByte

Max(a, b) == IF a >= b THEN a ELSE b

(***************************************************************************)
(* numpy / PIL primitives.                                                 *)
(***************************************************************************)

\* ndarray.astype(np.uint8) of the non-negative quotient num/den: truncation.
AsTypeUint8(num, den) == (num \div den) % (MaxByte + 1)

\* floor(sqrt(n)) for 0 <= n <= 255^2, by bisection.
RECURSIVE ISqrtSearch(_, _, _)
ISqrtSearch(n, lo, hi) ==
    IF lo = hi THEN lo
    ELSE LET mid == (lo + hi + 1) \div 2
         IN IF mid * mid <= n THEN ISqrtSearch(n, mid, hi)
                              ELSE ISqrtSearch(n, lo, mid - 1)

ISqrt(n) == ISqrtSearch(n, 0, MaxByte)

\* The content of a file that PIL cannot decode.
Corrupt == [mode |-> "corrupt"]

\* An image as PIL decodes it: a mode, a width, a height and one pixel per
\* (row, column); a pixel of mode RGBA has 4 channels, one of mode RGB 3.
Channels(mode) == IF mode = "RGBA" THEN 4 ELSE 3

\* Image.convert('RGBA') when the mode is not RGBA: RGB gets alpha 255.
ConvertRGBA(img) ==
    IF img.mode /= "RGBA"
    THEN [img EXCEPT !.mode = "RGBA",
                     !.pixels = [p \in DOMAIN img.pixels |->
                                    Append(img.pixels[p], MaxByte)]]
    ELSE img

(***************************************************************************)
(* convert_specular_to_mer: the per-pixel arithmetic.                      *)
(***************************************************************************)

\* roughness_bedrock for one smoothness byte (lines 128-130).
RoughnessBedrockNoInvert(smoothness) ==
    AsTypeUint8(smoothness * smoothness * MaxByte, MaxByte * MaxByte)

RoughnessBedrock(smoothness) ==
    AsTypeUint8((MaxByte - smoothness) * (MaxByte - smoothness) * MaxByte,
                MaxByte * MaxByte)

\* metalness for one f0_metal byte (lines 133-140).
MetalnessNoFloor(f0_metal) ==
    IF f0_metal >= MetalIdMin THEN MaxByte ELSE f0_metal

Metalness(f0_metal) ==
    IF f0_metal >= MetalIdMin THEN MaxByte
    ELSE IF f0_metal < MetalIdMin /\ f0_metal > metallic_threshold THEN f0_metal
    ELSE 0

\* emission_bedrock for one emission byte (lines 144-146).
EmissionBedrockNoSentinel(emission) == emission

EmissionBedrock(emission) == IF emission < MaxByte THEN emission ELSE 0

\* mer_array from the decoded image (lines 116-147).
MerArrayKeepAlpha(specular_img) ==
    LET spec_array == ConvertRGBA(specular_img)
    IN [mode |-> "RGBA", width |-> spec_array.width, height |-> spec_array.height,
        pixels |-> [p \in DOMAIN spec_array.pixels |->
                      <<Metalness(spec_array.pixels[p][2]),
                        EmissionBedrock(spec_array.pixels[p][4]),
                        RoughnessBedrock(spec_array.pixels[p][1]),
                        spec_array.pixels[p][4]>>]]

MerArrayEmissionFromBlue(specular_img) ==
    LET spec_array == ConvertRGBA(specular_img)
    IN [mode |-> "RGB", width |-> spec_array.width, height |-> spec_array.height,
        pixels |-> [p \in DOMAIN spec_array.pixels |->
                      <<Metalness(spec_array.pixels[p][2]),
                        EmissionBedrock(spec_array.pixels[p][3]),
                        RoughnessBedrock(spec_array.pixels[p][1])>>]]

MerArray(specular_img) ==
    LET spec_array == ConvertRGBA(specular_img)
    IN [mode |-> "RGB", width |-> spec_array.width, height |-> spec_array.height,
        pixels |-> [p \in DOMAIN spec_array.pixels |->
                      <<Metalness(spec_array.pixels[p][2]),
                        EmissionBedrock(spec_array.pixels[p][4]),
                        RoughnessBedrock(spec_array.pixels[p][1])>>]]

(***************************************************************************)
(* convert_normal_map: the per-pixel arithmetic.                           *)
(***************************************************************************)

\* nx_normalized * 255 = 2x - 255 (lines 184-185).
NormalizedTimes255(c) == 2 * c - MaxByte

\* nz_squared * 255^2, clamped at 0 (lines 187-188).
NzSquared(normal_x, normal_y) ==
    Max(0, MaxByte * MaxByte
           - (NormalizedTimes255(normal_x) * NormalizedTimes255(normal_x)
              + NormalizedTimes255(normal_y) * NormalizedTimes255(normal_y)))

\* normal_z (lines 189-191): ((nz + 1) / 2 * 255).astype(uint8).
NormalZ(normal_x, normal_y) ==
    AsTypeUint8(ISqrt(NzSquared(normal_x, normal_y)) + MaxByte, 2)

\* bedrock_normal from the decoded image (lines 177-196).
BedrockNormalKeepAO(normal_img) ==
    LET normal_array == ConvertRGBA(normal_img)
    IN [mode |-> "RGB", width |-> normal_array.width, height |-> normal_array.height,
        pixels |-> [p \in DOMAIN normal_array.pixels |->
                      <<normal_array.pixels[p][1], normal_array.pixels[p][2],
                        normal_array.pixels[p][3]>>]]

BedrockNormalSwapXY(normal_img) ==
    LET normal_array == ConvertRGBA(normal_img)
    IN [mode |-> "RGB", width |-> normal_array.width, height |-> normal_array.height,
        pixels |-> [p \in DOMAIN normal_array.pixels |->
                      <<normal_array.pixels[p][2], normal_array.pixels[p][1],
                        NormalZ(normal_array.pixels[p][1],
                                normal_array.pixels[p][2])>>]]

BedrockNormal(normal_img) ==
    LET normal_array == ConvertRGBA(normal_img)
    IN [mode |-> "RGB", width |-> normal_array.width, height |-> normal_array.height,
        pixels |-> [p \in DOMAIN normal_array.pixels |->
                      <<normal_array.pixels[p][1], normal_array.pixels[p][2],
                        NormalZ(normal_array.pixels[p][1],
                                normal_array.pixels[p][2])>>]]

(***************************************************************************)
(* The converter's operations on single images.                            *)
(***************************************************************************)

ZeroStats ==
    [specular_converted |-> 0, normal_converted |-> 0, mer_generated |-> 0,
     texture_sets_created |-> 0, errors |-> 0]

NoCall == [op |-> "none", src |-> "none", dst |-> "none", result |-> FALSE]

\* Image.open and np.array succeed on the path.
Decodes(path) == path \in DOMAIN files /\ files[path].mode /= Corrupt.mode

\* dict/file-system update: path now holds content.
Put(f, k, v) == [x \in DOMAIN f \cup {k} |-> IF x = k THEN v ELSE f[x]]

CallsMade ==
    conversion_stats.specular_converted + conversion_stats.normal_converted
    + conversion_stats.texture_sets_created + conversion_stats.errors

\* The body of convert_specular_to_mer (lines 114-162): what it does to the
\* output tree and the statistics, and what it returns.
SpecularSucceeds(specular_path, mer_path) ==
    Decodes(specular_path) /\ mer_path \notin unwritable

SpecularToMerFailureUncounted(specular_path, mer_path) ==
    IF SpecularSucceeds(specular_path, mer_path)
    THEN /\ outputs' = Put(outputs, mer_path, MerArray(files[specular_path]))
         /\ conversion_stats' =
              [conversion_stats EXCEPT !.specular_converted = @ + 1,
                                       !.mer_generated = @ + 1]
         /\ last_call' = [op |-> "convert_specular_to_mer", src |-> specular_path,
                          dst |-> mer_path, result |-> TRUE]
    ELSE /\ outputs' = outputs
         /\ conversion_stats' = conversion_stats
         /\ last_call' = [op |-> "convert_specular_to_mer", src |-> specular_path,
                          dst |-> mer_path, result |-> FALSE]

SpecularToMer(specular_path, mer_path) ==
    IF SpecularSucceeds(specular_path, mer_path)
    THEN /\ outputs' = Put(outputs, mer_path, MerArray(files[specular_path]))
         /\ conversion_stats' =
              [conversion_stats EXCEPT !.specular_converted = @ + 1,
                                       !.mer_generated = @ + 1]
         /\ last_call' = [op |-> "convert_specular_to_mer", src |-> specular_path,
                          dst |-> mer_path, result |-> TRUE]
    ELSE /\ outputs' = outputs
         /\ conversion_stats' = [conversion_stats EXCEPT !.errors = @ + 1]
         /\ last_call' = [op |-> "convert_specular_to_mer", src |-> specular_path,
                          dst |-> mer_path, result |-> FALSE]

convert_specular_to_mer(specular_path, mer_path) ==
    /\ CallsMade < MaxCalls
    /\ SpecularToMer(specular_path, mer_path)
    /\ UNCHANGED <<files, unwritable, texture_files, texture_index, pbr_sets, pc,
                   batch_vars>>

\* The body of convert_normal_map (lines 175-210).
NormalSucceeds(normal_path, output_path) ==
    Decodes(normal_path) /\ output_path \notin unwritable

NormalMapCountsMer(normal_path, output_path) ==
    IF NormalSucceeds(normal_path, output_path)
    THEN /\ outputs' = Put(outputs, output_path, BedrockNormal(files[normal_path]))
         /\ conversion_stats' =
              [conversion_stats EXCEPT !.normal_converted = @ + 1,
                                       !.mer_generated = @ + 1]
         /\ last_call' = [op |-> "convert_normal_map", src |-> normal_path,
                          dst |-> output_path, result |-> TRUE]
    ELSE /\ outputs' = outputs
         /\ conversion_stats' = [conversion_stats EXCEPT !.errors = @ + 1]
         /\ last_call' = [op |-> "convert_normal_map", src |-> normal_path,
                          dst |-> output_path, result |-> FALSE]

NormalMap(normal_path, output_path) ==
    IF NormalSucceeds(normal_path, output_path)
    THEN /\ outputs' = Put(outputs, output_path, BedrockNormal(files[normal_path]))
         /\ conversion_stats' =
              [conversion_stats EXCEPT !.normal_converted = @ + 1]
         /\ last_call' = [op |-> "convert_normal_map", src |-> normal_path,
                          dst |-> output_path, result |-> TRUE]
    ELSE /\ outputs' = outputs
         /\ conversion_stats' = [conversion_stats EXCEPT !.errors = @ + 1]
         /\ last_call' = [op |-> "convert_normal_map", src |-> normal_path,
                          dst |-> output_path, result |-> FALSE]

convert_normal_map(normal_path, output_path) ==
    /\ CallsMade < MaxCalls
    /\ NormalMap(normal_path, output_path)
    /\ UNCHANGED <<files, unwritable, texture_files, texture_index, pbr_sets, pc,
                   batch_vars>>

(***************************************************************************)
(* Paths.  A source path is a directory, a stem and an extension; an       *)
(* output path is the file name under the output blocks directory.  Names  *)
(* are sequences of characters.                                            *)
(***************************************************************************)
SourcePath(dir, stem, ext) == [dir |-> dir, stem |-> stem, ext |-> ext]

SpecularPath == SourcePath("blocks", <<"a", "_", "s">>, "png")
NormalPath == SourcePath("blocks", <<"a", "_", "n">>, "png")
MissingPath == SourcePath("blocks", <<"b", "_", "s">>, "png")

MerOut == <<"a", "_", "m", "e", "r", ".", "p", "n", "g">>
NormalOut == <<"a", "_", "n", "o", "r", "m", "a", "l", ".", "p", "n", "g">>
ReadOnlyOut == <<"r", "o", ".", "p", "n", "g">>
OutPaths == {MerOut, NormalOut, ReadOnlyOut}

EmptyDict == [keys |-> <<>>, val |-> <<>>]

\* The texture_mappings argument: None, or a dict (possibly empty).
None == [given |-> FALSE, table |-> <<>>]
Mapping(table) == [given |-> TRUE, table |-> table]

\* No detect_pbr_textures call has returned yet.
NoResult == [given |-> FALSE, sets |-> [keys |-> <<>>, val |-> <<>>]]
\* No concurrent worker is running.
NoWorkers == <<>>
\* convert_resource_pack has not been called.
NoPack == [stage |-> "uncalled"]

\* The locals of convert_pbr_textures before its loop starts.
NoBatch == [set_index |-> 1, has_mer |-> FALSE, has_normal |-> FALSE, json |-> "none"]

(***************************************************************************)
(* detect_pbr_textures.  A Python dict is its keys in insertion order and  *)
(* the value of each key.                                                  *)
(***************************************************************************)
EndsWith(name, suffix) ==
    /\ Len(name) >= Len(suffix)
    /\ SubSeq(name, Len(name) - Len(suffix) + 1, Len(name)) = suffix

\* name[:-2]
DropLast2(name) == SubSeq(name, 1, Len(name) - 2)

\* The suffixes of line 89.
KnownSuffixes ==
    {<<"_", "s">>, <<"_", "n">>, <<"_", "e">>, <<"_", "r">>, <<"_", "m">>,
     <<"_", "m", "e", "r">>, <<"_", "n", "o", "r", "m", "a", "l">>}

\* The extensions of line 71, in the order they are globbed.
GlobExtensions == <<"png", "jpg", "jpeg", "tga">>

\* pbr_sets[base_name][role] = texture_file, creating the set when the base
\* name is new (lines 79-81, 85-87, 90-92).
SetRoleReplacesSet(sets, base_name, role, texture_file) ==
    IF base_name \in DOMAIN sets.val
    THEN [sets EXCEPT !.val[base_name] = (role :> texture_file)]
    ELSE [keys |-> Append(sets.keys, base_name),
          val |-> Put(sets.val, base_name, (role :> texture_file))]

SetRoleKeepsFirst(sets, base_name, role, texture_file) ==
    IF base_name \in DOMAIN sets.val
    THEN IF role \in DOMAIN sets.val[base_name] THEN sets
         ELSE [sets EXCEPT !.val[base_name] = Put(@, role, texture_file)]
    ELSE [keys |-> Append(sets.keys, base_name),
          val |-> Put(sets.val, base_name, (role :> texture_file))]

SetRole(sets, base_name, role, texture_file) ==
    IF base_name \in DOMAIN sets.val
    THEN [sets EXCEPT !.val[base_name] = Put(@, role, texture_file)]
    ELSE [keys |-> Append(sets.keys, base_name),
          val |-> Put(sets.val, base_name, (role :> texture_file))]

\* One iteration of the loop of lines 74-92.
RecordFileMerAsDiffuse(sets, texture_file) ==
    LET name == texture_file.stem
    IN IF EndsWith(name, <<"_", "s">>)
       THEN SetRole(sets, DropLast2(name), "specular", texture_file)
       ELSE IF EndsWith(name, <<"_", "n">>)
       THEN SetRole(sets, DropLast2(name), "normal", texture_file)
       ELSE IF ~ \E suffix \in KnownSuffixes \ {<<"_", "m", "e", "r">>} :
                    EndsWith(name, suffix)
       THEN SetRole(sets, name, "diffuse", texture_file)
       ELSE sets

RecordFile(sets, texture_file) ==
    LET name == texture_file.stem
    IN IF EndsWith(name, <<"_", "s">>)
       THEN SetRole(sets, DropLast2(name), "specular", texture_file)
       ELSE IF EndsWith(name, <<"_", "n">>)
       THEN SetRole(sets, DropLast2(name), "normal", texture_file)
       ELSE IF ~ \E suffix \in KnownSuffixes : EndsWith(name, suffix)
       THEN SetRole(sets, name, "diffuse", texture_file)
       ELSE sets

\* The dict comprehension of lines 94-95.
KeepEverySet(sets) == sets

KeepPbrSets(sets) ==
    LET keep(k) == "specular" \in DOMAIN sets.val[k] \/ "normal" \in DOMAIN sets.val[k]
    IN [keys |-> SelectSeq(sets.keys, keep),
        val |-> [k \in {x \in DOMAIN sets.val : keep(x)} |-> sets.val[k]]]

\* The orders in which one glob may yield the files of a set.
Orders(S) ==
    {q \in [1..Cardinality(S) -> S] : \A i, j \in 1..Cardinality(S) :
                                          q[i] = q[j] => i = j}

\* texture_dir.glob("**/*.<ext>") over the source tree; a directory that
\* does not exist yields nothing.
Glob(ext) ==
    IF texture_dir_exists THEN Orders({f \in DOMAIN files : f.ext = ext}) ELSE {<<>>}

\* Lines 68-72: the files of each extension in turn.
DetectGlob ==
    /\ pc \in {"idle", "done"}
    /\ \E png \in Glob(GlobExtensions[1]), jpg \in Glob(GlobExtensions[2]),
          jpeg \in Glob(GlobExtensions[3]), tga \in Glob(GlobExtensions[4]) :
           texture_files' = png \o jpg \o jpeg \o tga
    /\ texture_index' = 1
    /\ pbr_sets' = EmptyDict
    /\ pc' = "loop"
    /\ previous_sets' = IF pc = "done" THEN [given |-> TRUE, sets |-> pbr_sets]
                        ELSE previous_sets
    /\ UNCHANGED <<files, outputs, unwritable, conversion_stats, last_call,
                   texture_dir_exists, texture_mappings, batch, runs, workers, pack>>

\* Lines 74-92: one file of the loop.
DetectFile ==
    /\ pc = "loop"
    /\ texture_index <= Len(texture_files)
    /\ pbr_sets' = RecordFile(pbr_sets, texture_files[texture_index])
    /\ texture_index' = texture_index + 1
    /\ UNCHANGED <<files, outputs, unwritable, conversion_stats, last_call,
                   texture_files, pc, batch_vars>>

\* Lines 94-101: the loop is over; keep the sets with a specular or a
\* normal map and return them.
DetectReturn ==
    /\ pc = "loop"
    /\ texture_index > Len(texture_files)
    /\ pbr_sets' = KeepPbrSets(pbr_sets)
    /\ pc' = "done"
    /\ last_call' = [op |-> "detect_pbr_textures", src |-> "texture_dir",
                     dst |-> "none", result |-> TRUE]
    /\ UNCHANGED <<files, outputs, unwritable, conversion_stats,
                   texture_files, texture_index, batch_vars>>

(***************************************************************************)
(* create_texture_set_json.  The descriptor is the dict that json.dump     *)
(* writes; output_dir is "blocks" or the name of another directory.        *)
(***************************************************************************)
MerSuffix == <<"_", "m", "e", "r">>
NormalSuffix == <<"_", "n", "o", "r", "m", "a", "l">>
PngExt == <<".", "p", "n", "g">>
TgaExt == <<".", "t", "g", "a">>
TextureSetJsonExt ==
    <<".", "t", "e", "x", "t", "u", "r", "e", "_", "s", "e", "t", ".", "j", "s", "o", "n">>

\* Lines 227-238: the dict handed to json.dump.
TextureSetAlwaysNormal(texture_name, has_mer, has_normal) ==
    ("format_version" :> "1.16.100")
    @@ ("minecraft:texture_set" :>
          (("color" :> texture_name)
           @@ (IF has_mer
               THEN ("metalness_emissive_roughness" :> texture_name \o MerSuffix)
               ELSE <<>>)
           @@ ("normal" :> texture_name \o NormalSuffix)))

TextureSetMerNamesFile(texture_name, has_mer, has_normal) ==
    ("format_version" :> "1.16.100")
    @@ ("minecraft:texture_set" :>
          (("color" :> texture_name)
           @@ (IF has_mer
               THEN ("metalness_emissive_roughness" :> texture_name \o MerSuffix \o PngExt)
               ELSE <<>>)
           @@ (IF has_normal THEN ("normal" :> texture_name \o NormalSuffix) ELSE <<>>)))

TextureSet(texture_name, has_mer, has_normal) ==
    ("format_version" :> "1.16.100")
    @@ ("minecraft:texture_set" :>
          (("color" :> texture_name)
           @@ (IF has_mer
               THEN ("metalness_emissive_roughness" :> texture_name \o MerSuffix)
               ELSE <<>>)
           @@ (IF has_normal THEN ("normal" :> texture_name \o NormalSuffix) ELSE <<>>)))

\* Lines 240-245: under output_dir when it is named blocks, else under
\* output_dir.parent.parent / "blocks".
JsonPath(texture_name, output_dir) ==
    IF ~ (output_dir = "blocks")
    THEN <<"../../blocks/">> \o texture_name \o TextureSetJsonExt
    ELSE texture_name \o TextureSetJsonExt

\* The body of create_texture_set_json (lines 226-260).
JsonSucceeds(texture_name, output_dir) ==
    JsonPath(texture_name, output_dir) \notin unwritable

TextureSetJsonCountsFailure(texture_name, output_dir, has_mer, has_normal) ==
    IF JsonSucceeds(texture_name, output_dir)
    THEN /\ outputs' = Put(outputs, JsonPath(texture_name, output_dir),
                           TextureSet(texture_name, has_mer, has_normal))
         /\ conversion_stats' =
              [conversion_stats EXCEPT !.texture_sets_created = @ + 1]
         /\ last_call' = [op |-> "create_texture_set_json", src |-> texture_name,
                          dst |-> JsonPath(texture_name, output_dir), result |-> TRUE]
    ELSE /\ outputs' = outputs
         /\ conversion_stats' = [conversion_stats EXCEPT !.texture_sets_created = @ + 1,
                                                         !.errors = @ + 1]
         /\ last_call' = [op |-> "create_texture_set_json", src |-> texture_name,
                          dst |-> JsonPath(texture_name, output_dir), result |-> FALSE]

TextureSetJson(texture_name, output_dir, has_mer, has_normal) ==
    IF JsonSucceeds(texture_name, output_dir)
    THEN /\ outputs' = Put(outputs, JsonPath(texture_name, output_dir),
                           TextureSet(texture_name, has_mer, has_normal))
         /\ conversion_stats' =
              [conversion_stats EXCEPT !.texture_sets_created = @ + 1]
         /\ last_call' = [op |-> "create_texture_set_json", src |-> texture_name,
                          dst |-> JsonPath(texture_name, output_dir), result |-> TRUE]
    ELSE /\ outputs' = outputs
         /\ conversion_stats' = [conversion_stats EXCEPT !.errors = @ + 1]
         /\ last_call' = [op |-> "create_texture_set_json", src |-> texture_name,
                          dst |-> JsonPath(texture_name, output_dir), result |-> FALSE]

create_texture_set_json(texture_name, output_dir, has_mer, has_normal) ==
    /\ CallsMade < MaxCalls
    /\ TextureSetJson(texture_name, output_dir, has_mer, has_normal)
    /\ UNCHANGED <<files, unwritable, texture_files, texture_index, pbr_sets, pc,
                   batch_vars>>

(***************************************************************************)
(* convert_pbr_textures: discovery, then for each set the specular         *)
(* conversion, the normal conversion and the descriptor.                   *)
(***************************************************************************)

\* detect_pbr_textures as one function of the enumerated files (lines 74-101).
RECURSIVE DetectLoop(_, _)
DetectLoop(sets, remaining) ==
    IF remaining = <<>> THEN sets
    ELSE DetectLoop(RecordFile(sets, Head(remaining)), Tail(remaining))

DetectPbrTextures(enumerated) == KeepPbrSets(DetectLoop(EmptyDict, enumerated))

\* str.replace(old, ''): every occurrence, leftmost first, is removed.
RECURSIVE RemoveAll(_, _)
RemoveAll(name, old) ==
    IF Len(name) < Len(old) THEN name
    ELSE IF SubSeq(name, 1, Len(old)) = old
         THEN RemoveAll(SubSeq(name, Len(old) + 1, Len(name)), old)
         ELSE <<Head(name)>> \o RemoveAll(Tail(name), old)

\* Lines 289-294.
BedrockBaseName(set_name) ==
    LET diffuse_name == set_name \o PngExt
    IN IF /\ texture_mappings.given
          /\ DOMAIN texture_mappings.table /= {}
          /\ diffuse_name \in DOMAIN texture_mappings.table
       THEN RemoveAll(RemoveAll(texture_mappings.table[diffuse_name], PngExt), TgaExt)
       ELSE set_name

\* Lines 302 and 311.
MerFilename(bedrock_base_name) == bedrock_base_name \o MerSuffix \o PngExt
NormalFilename(bedrock_base_name) == bedrock_base_name \o NormalSuffix \o PngExt

\* The set the loop of line 286 is at, and its components.
SetName == pbr_sets.keys[batch.set_index]
Components == pbr_sets.val[SetName]

\* Lines 276-284: discovery; with no set the statistics are returned.
PbrDetectCountsError ==
    /\ pc = "idle"
    /\ \E png \in Glob(GlobExtensions[1]), jpg \in Glob(GlobExtensions[2]),
          jpeg \in Glob(GlobExtensions[3]), tga \in Glob(GlobExtensions[4]) :
           /\ texture_files' = png \o jpg \o jpeg \o tga
           /\ pbr_sets' = DetectPbrTextures(png \o jpg \o jpeg \o tga)
    /\ texture_index' = Len(texture_files') + 1
    /\ batch' = NoBatch
    /\ IF pbr_sets'.keys = <<>>
       THEN /\ pc' = "returned"
            /\ conversion_stats' = [conversion_stats EXCEPT !.errors = @ + 1]
       ELSE /\ pc' = "specular"
            /\ conversion_stats' = conversion_stats
    /\ runs' = runs + 1
    /\ UNCHANGED <<files, outputs, unwritable, last_call, texture_dir_exists,
                   texture_mappings, previous_sets, workers, pack>>

PbrDetect ==
    /\ pc = "idle"
    /\ \E png \in Glob(GlobExtensions[1]), jpg \in Glob(GlobExtensions[2]),
          jpeg \in Glob(GlobExtensions[3]), tga \in Glob(GlobExtensions[4]) :
           /\ texture_files' = png \o jpg \o jpeg \o tga
           /\ pbr_sets' = DetectPbrTextures(png \o jpg \o jpeg \o tga)
    /\ texture_index' = Len(texture_files') + 1
    /\ batch' = NoBatch
    /\ pc' = IF pbr_sets'.keys = <<>> THEN "returned" ELSE "specular"
    /\ runs' = runs + 1
    /\ UNCHANGED <<files, outputs, unwritable, conversion_stats, last_call,
                   texture_dir_exists, texture_mappings, previous_sets, workers, pack>>

\* Lines 286-306: the set's output name, and its specular map if it has one.
PbrSpecularStopsOnFailure ==
    /\ pc = "specular"
    /\ LET mer_path == MerFilename(BedrockBaseName(SetName))
       IN IF "specular" \in DOMAIN Components
          THEN /\ SpecularToMer(Components["specular"], mer_path)
               /\ batch' = [batch EXCEPT
                              !.has_mer = SpecularSucceeds(Components["specular"], mer_path),
                              !.has_normal = FALSE, !.json = "none"]
               /\ pc' = IF SpecularSucceeds(Components["specular"], mer_path)
                        THEN "normal" ELSE "returned"
          ELSE /\ UNCHANGED <<outputs, conversion_stats, last_call>>
               /\ batch' = [batch EXCEPT !.has_mer = FALSE, !.has_normal = FALSE,
                                         !.json = "none"]
               /\ pc' = "normal"
    /\ UNCHANGED <<files, unwritable, texture_files, texture_index, pbr_sets,
                   texture_dir_exists, texture_mappings, caller_vars>>

PbrSpecular ==
    /\ pc = "specular"
    /\ LET mer_path == MerFilename(BedrockBaseName(SetName))
       IN IF "specular" \in DOMAIN Components
          THEN /\ SpecularToMer(Components["specular"], mer_path)
               /\ batch' = [batch EXCEPT
                              !.has_mer = SpecularSucceeds(Components["specular"], mer_path),
                              !.has_normal = FALSE, !.json = "none"]
          ELSE /\ UNCHANGED <<outputs, conversion_stats, last_call>>
               /\ batch' = [batch EXCEPT !.has_mer = FALSE, !.has_normal = FALSE,
                                         !.json = "none"]
    /\ pc' = "normal"
    /\ UNCHANGED <<files, unwritable, texture_files, texture_index, pbr_sets,
                   texture_dir_exists, texture_mappings, caller_vars>>

\* Lines 308-315: the set's normal map if it has one.
PbrNormal ==
    /\ pc = "normal"
    /\ LET normal_out_path == NormalFilename(BedrockBaseName(SetName))
       IN IF "normal" \in DOMAIN Components
          THEN /\ NormalMap(Components["normal"], normal_out_path)
               /\ batch' = [batch EXCEPT
                              !.has_normal = NormalSucceeds(Components["normal"],
                                                            normal_out_path)]
          ELSE UNCHANGED <<outputs, conversion_stats, last_call, batch>>
    /\ pc' = "json"
    /\ UNCHANGED <<files, unwritable, texture_files, texture_index, pbr_sets,
                   texture_dir_exists, texture_mappings, caller_vars>>

\* Lines 317-328: the set's descriptor if a map was converted; then the
\* next set, or the return of the statistics after the last one.
PbrDescriptor ==
    /\ pc = "json"
    /\ IF batch.has_mer \/ batch.has_normal
       THEN /\ TextureSetJson(BedrockBaseName(SetName), "blocks",
                              batch.has_mer, batch.has_normal)
            /\ batch' = [batch EXCEPT
                           !.set_index = @ + 1,
                           !.json = IF JsonSucceeds(BedrockBaseName(SetName), "blocks")
                                    THEN "written" ELSE "failed"]
       ELSE /\ UNCHANGED <<outputs, conversion_stats, last_call>>
            /\ batch' = [batch EXCEPT !.set_index = @ + 1, !.json = "skipped"]
    /\ pc' = IF batch.set_index < Len(pbr_sets.keys) THEN "specular" ELSE "returned"
    /\ UNCHANGED <<files, unwritable, texture_files, texture_index, pbr_sets,
                   texture_dir_exists, texture_mappings, caller_vars>>

(***************************************************************************)
(* Specification SpecMer: convert_specular_to_mer on every one-pixel       *)
(* image in which one channel takes every byte value and the others take   *)
(* the sample values.                                                      *)
(***************************************************************************)
SampleBytes == {0, 200, MaxByte}

OnePixel(mode, px) ==
    [mode |-> mode, width |-> 1, height |-> 1, pixels |-> (<<1, 1>> :> px)]

SweepPixels(n) ==
    {[s EXCEPT ![c] = v] : s \in [1..n -> SampleBytes], c \in 1..n, v \in Byte}

SweepImages ==
    {OnePixel("RGBA", px) : px \in SweepPixels(4)}
    \cup {OnePixel("RGB", px) : px \in SweepPixels(3)}

InitMer ==
    /\ files \in {(SpecularPath :> img) : img \in SweepImages}
    /\ outputs = <<>>
    /\ unwritable = {ReadOnlyOut}
    /\ conversion_stats = ZeroStats
    /\ last_call = NoCall
    /\ texture_files = <<>>
    /\ texture_index = 1
    /\ pbr_sets = EmptyDict
    /\ pc = "idle"
    /\ texture_dir_exists = TRUE
    /\ texture_mappings = None
    /\ batch = NoBatch
    /\ runs = 0
    /\ previous_sets = NoResult
    /\ workers = NoWorkers
    /\ pack = NoPack

NextMer ==
    \E specular_path \in {SpecularPath, MissingPath}, mer_path \in {MerOut, ReadOnlyOut} :
        convert_specular_to_mer(specular_path, mer_path)

SpecMer == InitMer /\ [][NextMer]_vars

(***************************************************************************)
(* Specification SpecNormal: convert_normal_map on every one-pixel RGBA   *)
(* image over all (X, Y) pairs, and on the one-pixel RGB images in which   *)
(* X takes every byte value.                                               *)
(***************************************************************************)
NormalSweepImages ==
    {OnePixel("RGBA", <<x, y, 77, 200>>) : x \in Byte, y \in Byte}
    \cup {OnePixel("RGB", <<x, y, 77>>) : x \in Byte, y \in SampleBytes}

InitNormal ==
    /\ files \in {(NormalPath :> img) : img \in NormalSweepImages}
    /\ outputs = <<>>
    /\ unwritable = {ReadOnlyOut}
    /\ conversion_stats = ZeroStats
    /\ last_call = NoCall
    /\ texture_files = <<>>
    /\ texture_index = 1
    /\ pbr_sets = EmptyDict
    /\ pc = "idle"
    /\ texture_dir_exists = TRUE
    /\ texture_mappings = None
    /\ batch = NoBatch
    /\ runs = 0
    /\ previous_sets = NoResult
    /\ workers = NoWorkers
    /\ pack = NoPack

NextNormal ==
    \E normal_path \in {NormalPath, MissingPath},
       output_path \in {NormalOut, ReadOnlyOut} :
        convert_normal_map(normal_path, output_path)

SpecNormal == InitNormal /\ [][NextNormal]_vars

(***************************************************************************)
(* Specification SpecImage: both transcoders on the images of at most      *)
(* MaxPixels pixels, of 3 or 4 channels, whose pixels are sample pixels;   *)
(* the source tree also holds a file that does not decode.                 *)
(***************************************************************************)
SamplePixels ==
    {<<128, 128, 255, 255>>, <<128, 128, 0, 7>>, <<255, 20, 64, 0>>}

Dimensions ==
    {d \in (1..MaxPixels) \X (1..MaxPixels) : d[1] * d[2] <= MaxPixels}

\* The first n channels of a pixel.
Take(px, n) == [c \in 1..n |-> px[c]]

ImagesOf(mode, width, height) ==
    {[mode |-> mode, width |-> width, height |-> height, pixels |-> px] :
        px \in [(1..height) \X (1..width) ->
                    {Take(s, Channels(mode)) : s \in SamplePixels}]}

SampleImages ==
    UNION {ImagesOf(mode, d[1], d[2]) : mode \in {"RGB", "RGBA"}, d \in Dimensions}

CorruptPath == SourcePath("blocks", <<"c", "_", "s">>, "png")

InitImage ==
    /\ files \in {(NormalPath :> img) @@ (CorruptPath :> Corrupt) :
                    img \in SampleImages}
    /\ outputs = <<>>
    /\ unwritable = {ReadOnlyOut}
    /\ conversion_stats = ZeroStats
    /\ last_call = NoCall
    /\ texture_files = <<>>
    /\ texture_index = 1
    /\ pbr_sets = EmptyDict
    /\ pc = "idle"
    /\ texture_dir_exists = TRUE
    /\ texture_mappings = None
    /\ batch = NoBatch
    /\ runs = 0
    /\ previous_sets = NoResult
    /\ workers = NoWorkers
    /\ pack = NoPack

NextImage ==
    \/ \E specular_path \in {NormalPath, CorruptPath},
          mer_path \in {MerOut, ReadOnlyOut} :
           convert_specular_to_mer(specular_path, mer_path)
    \/ \E normal_path \in {NormalPath, CorruptPath},
          output_path \in {NormalOut, ReadOnlyOut} :
           convert_normal_map(normal_path, output_path)

SpecImage == InitImage /\ [][NextImage]_vars

(***************************************************************************)
(* Specification SpecDetect: detect_pbr_textures on every source tree of   *)
(* at most MaxFiles files of the universe below, in every order the file   *)
(* system may enumerate them.                                              *)
(***************************************************************************)
Stem_a == <<"a">>
Stem_as == <<"a", "s">>
Stem_s == <<"_", "s">>
Stem_a_s == <<"a", "_", "s">>
Stem_a_n == <<"a", "_", "n">>
Stem_b_n == <<"b", "_", "n">>
Stem_a_e == <<"a", "_", "e">>
Stem_a_r == <<"a", "_", "r">>
Stem_a_m == <<"a", "_", "m">>
Stem_a_mer == <<"a", "_", "m", "e", "r">>
Stem_a_normal == <<"a", "_", "n", "o", "r", "m", "a", "l">>
Stem_a_s_n == <<"a", "_", "s", "_", "n">>

UniverseFiles ==
    {SourcePath("blocks", stem, "png") :
        stem \in {Stem_a, Stem_as, Stem_s, Stem_a_s, Stem_a_n, Stem_b_n, Stem_a_e,
                  Stem_a_r, Stem_a_m, Stem_a_mer, Stem_a_normal, Stem_a_s_n}}
    \cup {SourcePath("blocks", Stem_a_s, "tga"), SourcePath("items", Stem_a_s, "png"),
          SourcePath("blocks", Stem_a, "jpg"), SourcePath("blocks", Stem_a_mer, "jpeg"),
          SourcePath("blocks", Stem_a_n, "json")}

Flat == OnePixel("RGBA", <<128, 128, 255, 255>>)

InitDetect ==
    /\ \E tree \in SUBSET UniverseFiles :
          /\ Cardinality(tree) <= MaxFiles
          /\ files = [f \in tree |-> Flat]
    /\ outputs = <<>>
    /\ unwritable = {}
    /\ conversion_stats = ZeroStats
    /\ last_call = NoCall
    /\ texture_files = <<>>
    /\ texture_index = 1
    /\ pbr_sets = EmptyDict
    /\ pc = "idle"
    /\ texture_dir_exists = TRUE
    /\ texture_mappings = None
    /\ batch = NoBatch
    /\ runs = 0
    /\ previous_sets = NoResult
    /\ workers = NoWorkers
    /\ pack = NoPack

NextDetect == DetectGlob \/ DetectFile \/ DetectReturn

SpecDetect == InitDetect /\ [][NextDetect]_vars

(***************************************************************************)
(* Specification SpecBatch: one run of convert_pbr_textures from zeroed    *)
(* counters over a source tree of specular and normal maps, some of which  *)
(* do not decode, with and without a mapping table, with and without an    *)
(* output path that cannot be written, and with a source directory that    *)
(* may not exist.                                                          *)
(***************************************************************************)
Stem_b_s == <<"b", "_", "s">>
Stem_c_s == <<"c", "_", "s">>

BatchStems == {Stem_a_s, Stem_a_n, Stem_b_s, Stem_b_n, Stem_c_s}
BatchFiles == {SourcePath("blocks", stem, "png") : stem \in BatchStems}

Name_a_png == <<"a", ".", "p", "n", "g">>
Name_b_png == <<"b", ".", "p", "n", "g">>
Name_x_png == <<"x", ".", "p", "n", "g">>
Name_x_tga == <<"x", ".", "t", "g", "a">>
Name_x_jpg == <<"x", ".", "j", "p", "g">>
Name_x_tga_png == <<"x", ".", "t", "g", "a", ".", "p", "n", "g">>

\* The texture_mappings arguments of the runs.
BatchMappings ==
    {None, Mapping(<<>>),
     Mapping(Name_a_png :> Name_x_png),
     Mapping(Name_a_png :> Name_x_tga),
     Mapping(Name_a_png :> Name_x_jpg),
     Mapping(Name_a_png :> Name_x_tga_png),
     Mapping(Name_a_png :> Name_b_png),
     Mapping((Name_a_png :> Name_x_png) @@ (Name_b_png :> Name_x_png))}

\* The sets of output paths that cannot be written.
BatchUnwritable ==
    {{}, {MerFilename(<<"a">>)}, {NormalFilename(<<"b">>)},
     {JsonPath(<<"a">>, "blocks")}}

InitBatch ==
    /\ texture_dir_exists \in BOOLEAN
    /\ \E tree \in SUBSET BatchFiles :
          /\ Cardinality(tree) <= MaxFiles
          /\ texture_dir_exists \/ tree = {}
          /\ files \in [tree -> {Flat, Corrupt}]
    /\ texture_mappings \in BatchMappings
    /\ unwritable \in BatchUnwritable
    /\ outputs = <<>>
    /\ conversion_stats = ZeroStats
    /\ last_call = NoCall
    /\ texture_files = <<>>
    /\ texture_index = 1
    /\ pbr_sets = EmptyDict
    /\ pc = "idle"
    /\ batch = NoBatch
    /\ runs = 0
    /\ previous_sets = NoResult
    /\ workers = NoWorkers
    /\ pack = NoPack

NextBatch == PbrDetect \/ PbrSpecular \/ PbrNormal \/ PbrDescriptor

SpecBatch == InitBatch /\ [][NextBatch]_vars

(***************************************************************************)
(* Specification SpecDescriptor: create_texture_set_json called directly   *)
(* with every combination of the two flags, for an output directory named  *)
(* blocks and for one that is not.                                         *)
(***************************************************************************)
DescriptorNames == {<<"a">>, <<"b">>}
DescriptorDirs == {"blocks", "pbr"}

InitDescriptor ==
    /\ files = <<>>
    /\ outputs = <<>>
    /\ unwritable \in {{}, {JsonPath(<<"b">>, "blocks")}}
    /\ conversion_stats = ZeroStats
    /\ last_call = NoCall
    /\ texture_files = <<>>
    /\ texture_index = 1
    /\ pbr_sets = EmptyDict
    /\ pc = "idle"
    /\ texture_dir_exists = TRUE
    /\ texture_mappings = None
    /\ batch = NoBatch
    /\ runs = 0
    /\ previous_sets = NoResult
    /\ workers = NoWorkers
    /\ pack = NoPack

NextDescriptor ==
    \E texture_name \in DescriptorNames, output_dir \in DescriptorDirs,
       has_mer \in BOOLEAN, has_normal \in BOOLEAN :
        create_texture_set_json(texture_name, output_dir, has_mer, has_normal)

SpecDescriptor == InitDescriptor /\ [][NextDescriptor]_vars

(***************************************************************************)
(* Reuse of one converter: further calls of convert_pbr_textures, and      *)
(* reset_stats between them.                                               *)
(***************************************************************************)

\* Lines 262-276: convert_pbr_textures is called on a converter that is
\* not inside a call.
convert_pbr_textures ==
    /\ pc \in {"constructed", "returned"}
    /\ runs < MaxRuns
    /\ pc' = "idle"
    /\ UNCHANGED <<files, outputs, unwritable, conversion_stats, last_call,
                   texture_files, texture_index, pbr_sets, texture_dir_exists,
                   texture_mappings, batch, caller_vars>>

\* Lines 408-416.
ResetStatsKeepsErrors ==
    /\ pc \in {"constructed", "returned"}
    /\ conversion_stats' = [ZeroStats EXCEPT !.errors = conversion_stats.errors]
    /\ runs' = 0
    /\ last_call' = [op |-> "reset_stats", src |-> "none", dst |-> "none",
                     result |-> TRUE]
    /\ UNCHANGED <<files, outputs, unwritable, texture_files, texture_index, pbr_sets,
                   pc, texture_dir_exists, texture_mappings, batch, previous_sets,
                   workers, pack>>

reset_stats ==
    /\ pc \in {"constructed", "returned"}
    /\ conversion_stats' = ZeroStats
    /\ runs' = 0
    /\ last_call' = [op |-> "reset_stats", src |-> "none", dst |-> "none",
                     result |-> TRUE]
    /\ UNCHANGED <<files, outputs, unwritable, texture_files, texture_index, pbr_sets,
                   pc, texture_dir_exists, texture_mappings, batch, previous_sets,
                   workers, pack>>

(***************************************************************************)
(* Specification SpecReuse: up to MaxRuns calls of convert_pbr_textures    *)
(* on one converter over an unchanged source tree, with reset_stats        *)
(* called or not between them.                                             *)
(***************************************************************************)
\* The PBR maps of the source trees.
PackStems == {Stem_a_s, Stem_a_n, Stem_b_s}
PackFiles == {SourcePath("blocks", stem, "png") : stem \in PackStems}

InitReuse ==
    /\ texture_dir_exists \in BOOLEAN
    /\ \E tree \in SUBSET PackFiles :
          /\ Cardinality(tree) <= MaxFiles
          /\ texture_dir_exists \/ tree = {}
          /\ files \in [tree -> {Flat, Corrupt}]
    /\ texture_mappings \in {None, Mapping(Name_a_png :> Name_x_png)}
    /\ unwritable \in {{}, {MerFilename(<<"b">>)}, {JsonPath(<<"a">>, "blocks")}}
    /\ outputs = <<>>
    /\ conversion_stats = ZeroStats
    /\ last_call = NoCall
    /\ texture_files = <<>>
    /\ texture_index = 1
    /\ pbr_sets = EmptyDict
    /\ pc = "constructed"
    /\ batch = NoBatch
    /\ runs = 0
    /\ previous_sets = NoResult
    /\ workers = NoWorkers
    /\ pack = NoPack

NextReuse ==
    \/ convert_pbr_textures \/ PbrDetect \/ PbrSpecular \/ PbrNormal \/ PbrDescriptor
    \/ reset_stats

SpecReuse == InitReuse /\ [][NextReuse]_vars

(***************************************************************************)
(* generate_mer_from_individual_maps (lines 330-390).                      *)
(***************************************************************************)
\* An Optional[Path] argument left at None.
NoPath == SourcePath("none", <<>>, "none")

\* "path and path.exists()" (lines 349, 360, 367, 374).
Present(path) == path /= NoPath /\ path \in DOMAIN files

\* ImageOps.grayscale when the mode is not L (lines 362-363): PIL's ITU-R
\* 601-2 luma of the R, G and B channels, rounded in 16-bit fixed point.
Grayscale(img) ==
    IF img.mode /= "L"
    THEN [img EXCEPT !.mode = "L",
                     !.pixels = [p \in DOMAIN img.pixels |->
                                   <<(img.pixels[p][1] * 19595 + img.pixels[p][2] * 38470
                                      + img.pixels[p][3] * 7471 + 32768) \div 65536>>]]
    ELSE img

\* Lines 347-351: the first of the three maps that is present.
ReferencePath(metallic_path, emissive_path, roughness_path) ==
    IF Present(metallic_path) THEN metallic_path
    ELSE IF Present(emissive_path) THEN emissive_path
    ELSE IF Present(roughness_path) THEN roughness_path
    ELSE NoPath

\* numpy assigns an array of shape (height, width) to a channel of
\* mer_array when each of its dimensions equals the reference's or is 1.
Broadcasts(img, reference_img) ==
    /\ img.height \in {reference_img.height, 1}
    /\ img.width \in {reference_img.width, 1}

\* mer_array[row, column, channel] after the assignment of the map at path
\* (lines 357-378); 0, from np.zeros, when the map is not present.
ChannelFrom(path, p) ==
    IF Present(path)
    THEN LET map_array == Grayscale(files[path])
         IN map_array.pixels[<<IF map_array.height = 1 THEN 1 ELSE p[1],
                               IF map_array.width = 1 THEN 1 ELSE p[2]>>][1]
    ELSE 0

GenerateMerSucceeds(metallic_path, emissive_path, roughness_path, output_path) ==
    LET reference_path == ReferencePath(metallic_path, emissive_path, roughness_path)
    IN /\ reference_path /= NoPath
       /\ \A path \in {metallic_path, emissive_path, roughness_path} :
             Present(path) => /\ Decodes(path)
                              /\ Decodes(reference_path)
                              /\ Broadcasts(files[path], files[reference_path])
       /\ output_path \notin unwritable

GenerateMerArray(metallic_path, emissive_path, roughness_path) ==
    LET reference_img ==
            files[ReferencePath(metallic_path, emissive_path, roughness_path)]
    IN [mode |-> "RGB", width |-> reference_img.width, height |-> reference_img.height,
        pixels |-> [p \in DOMAIN reference_img.pixels |->
                      <<ChannelFrom(metallic_path, p), ChannelFrom(emissive_path, p),
                        ChannelFrom(roughness_path, p)>>]]

GenerateMerCountsMer(metallic_path, emissive_path, roughness_path, output_path) ==
    LET ok == GenerateMerSucceeds(metallic_path, emissive_path, roughness_path,
                                  output_path)
    IN /\ outputs' = IF ok
                     THEN Put(outputs, output_path,
                              GenerateMerArray(metallic_path, emissive_path,
                                               roughness_path))
                     ELSE outputs
       /\ conversion_stats' = IF ok
                              THEN [conversion_stats EXCEPT !.mer_generated = @ + 1]
                              ELSE conversion_stats
       /\ last_call' = [op |-> "generate_mer_from_individual_maps",
                        src |-> ReferencePath(metallic_path, emissive_path,
                                              roughness_path),
                        dst |-> output_path, result |-> ok]

\* The body: the file written and the value returned; no counter changes,
\* on success (lines 381-386) or on failure (lines 353-355, 388-390).
GenerateMer(metallic_path, emissive_path, roughness_path, output_path) ==
    LET ok == GenerateMerSucceeds(metallic_path, emissive_path, roughness_path,
                                  output_path)
    IN /\ outputs' = IF ok
                     THEN Put(outputs, output_path,
                              GenerateMerArray(metallic_path, emissive_path,
                                               roughness_path))
                     ELSE outputs
       /\ conversion_stats' = conversion_stats
       /\ last_call' = [op |-> "generate_mer_from_individual_maps",
                        src |-> ReferencePath(metallic_path, emissive_path,
                                              roughness_path),
                        dst |-> output_path, result |-> ok]

generate_mer_from_individual_maps(metallic_path, emissive_path, roughness_path, output_path) ==
    /\ GenerateMer(metallic_path, emissive_path, roughness_path, output_path)
    /\ UNCHANGED <<files, unwritable, texture_files, texture_index, pbr_sets, pc,
                   batch_vars>>

(***************************************************************************)
(* Specification SpecCalls: any sequence of the six operations on one      *)
(* converter; the single-image operations are called between, not within,  *)
(* the calls of convert_pbr_textures.                                      *)
(***************************************************************************)
\* A decodable map whose size differs from Flat's.
Wide ==
    [mode |-> "RGB", width |-> 2, height |-> 1,
     pixels |-> (<<1, 1>> :> <<255, 20, 64>>) @@ (<<1, 2>> :> <<128, 128, 0>>)]

InitCalls ==
    /\ texture_dir_exists = TRUE
    /\ files \in {(SpecularPath :> specular_img) @@ (NormalPath :> normal_img) :
                    specular_img \in {Flat, Corrupt}, normal_img \in {Flat, Wide}}
    /\ texture_mappings = None
    /\ unwritable \in {{}, {MerOut}}
    /\ outputs = <<>>
    /\ conversion_stats = ZeroStats
    /\ last_call = NoCall
    /\ texture_files = <<>>
    /\ texture_index = 1
    /\ pbr_sets = EmptyDict
    /\ pc = "constructed"
    /\ batch = NoBatch
    /\ runs = 0
    /\ previous_sets = NoResult
    /\ workers = NoWorkers
    /\ pack = NoPack

BetweenCalls == pc \in {"constructed", "returned"}

NextCalls ==
    \/ /\ BetweenCalls
       /\ \E specular_path \in {SpecularPath, MissingPath} :
             convert_specular_to_mer(specular_path, MerOut)
    \/ /\ BetweenCalls
       /\ convert_normal_map(NormalPath, NormalOut)
    \/ /\ BetweenCalls
       /\ \E has_mer \in BOOLEAN, has_normal \in BOOLEAN :
             create_texture_set_json(<<"a">>, "blocks", has_mer, has_normal)
    \/ /\ BetweenCalls
       /\ \E metallic_path \in {NoPath, SpecularPath},
             emissive_path \in {NoPath, NormalPath},
             roughness_path \in {NoPath, MissingPath} :
             generate_mer_from_individual_maps(metallic_path, emissive_path,
                                               roughness_path, MerOut)
    \/ convert_pbr_textures \/ PbrDetect \/ PbrSpecular \/ PbrNormal \/ PbrDescriptor
    \/ reset_stats

SpecCalls == InitCalls /\ [][NextCalls]_vars

(***************************************************************************)
(* Concurrent workers on one converter.  Each worker runs the body of the  *)
(* loop of convert_pbr_textures (lines 287-319) for one set.  The          *)
(* statement conversion_stats[counter] += 1 reads the counter and then     *)
(* writes the value read plus one; nothing orders the two accesses of one  *)
(* worker with those of another.                                           *)
(***************************************************************************)
Worker(set_index) ==
    [set_index |-> set_index, step |-> "specular", has_mer |-> FALSE,
     has_normal |-> FALSE, pending |-> <<>>, loaded |-> FALSE, register |-> 0]

WorkerUnchanged ==
    UNCHANGED <<files, unwritable, texture_files, texture_index, pbr_sets, pc,
                texture_dir_exists, texture_mappings, batch, runs, previous_sets, pack>>

\* The I/O of the worker's next call and the counters the call will
\* increment: convert_specular_to_mer (lines 299-306), convert_normal_map
\* (lines 308-315), create_texture_set_json (lines 317-319).
WorkerCall(w) ==
    LET self == workers[w]
        set_name == pbr_sets.keys[self.set_index]
        components == pbr_sets.val[set_name]
        base == BedrockBaseName(set_name)
    IN /\ self.pending = <<>>
       /\ self.step /= "done"
       /\ IF self.step = "specular"
          THEN IF "specular" \in DOMAIN components
               THEN LET ok == SpecularSucceeds(components["specular"], MerFilename(base))
                    IN /\ outputs' = IF ok
                                     THEN Put(outputs, MerFilename(base),
                                              MerArray(files[components["specular"]]))
                                     ELSE outputs
                       /\ last_call' = [op |-> "convert_specular_to_mer",
                                        src |-> components["specular"],
                                        dst |-> MerFilename(base), result |-> ok]
                       /\ workers' = [workers EXCEPT
                             ![w].step = "normal", ![w].has_mer = ok,
                             ![w].pending = IF ok
                                            THEN <<"specular_converted", "mer_generated">>
                                            ELSE <<"errors">>]
               ELSE /\ UNCHANGED <<outputs, last_call>>
                    /\ workers' = [workers EXCEPT ![w].step = "normal"]
          ELSE IF self.step = "normal"
          THEN IF "normal" \in DOMAIN components
               THEN LET ok == NormalSucceeds(components["normal"], NormalFilename(base))
                    IN /\ outputs' = IF ok
                                     THEN Put(outputs, NormalFilename(base),
                                              BedrockNormal(files[components["normal"]]))
                                     ELSE outputs
                       /\ last_call' = [op |-> "convert_normal_map",
                                        src |-> components["normal"],
                                        dst |-> NormalFilename(base), result |-> ok]
                       /\ workers' = [workers EXCEPT
                             ![w].step = "json", ![w].has_normal = ok,
                             ![w].pending = IF ok THEN <<"normal_converted">>
                                            ELSE <<"errors">>]
               ELSE /\ UNCHANGED <<outputs, last_call>>
                    /\ workers' = [workers EXCEPT ![w].step = "json"]
          ELSE IF self.has_mer \/ self.has_normal
               THEN LET ok == JsonSucceeds(base, "blocks")
                    IN /\ outputs' = IF ok
                                     THEN Put(outputs, JsonPath(base, "blocks"),
                                              TextureSet(base, self.has_mer,
                                                         self.has_normal))
                                     ELSE outputs
                       /\ last_call' = [op |-> "create_texture_set_json", src |-> base,
                                        dst |-> JsonPath(base, "blocks"), result |-> ok]
                       /\ workers' = [workers EXCEPT
                             ![w].step = "done",
                             ![w].pending = IF ok THEN <<"texture_sets_created">>
                                            ELSE <<"errors">>]
               ELSE /\ UNCHANGED <<outputs, last_call>>
                    /\ workers' = [workers EXCEPT ![w].step = "done"]
       /\ conversion_stats' = conversion_stats
       /\ WorkerUnchanged

\* The read of conversion_stats[counter] += 1.
WorkerLoad(w) ==
    /\ workers[w].pending /= <<>>
    /\ ~ workers[w].loaded
    /\ workers' = [workers EXCEPT
                     ![w].loaded = TRUE,
                     ![w].register = conversion_stats[Head(workers[w].pending)]]
    /\ UNCHANGED <<outputs, last_call, conversion_stats>>
    /\ WorkerUnchanged

\* The write of conversion_stats[counter] += 1.
WorkerStore(w) ==
    /\ workers[w].pending /= <<>>
    /\ workers[w].loaded
    /\ conversion_stats' =
          [conversion_stats EXCEPT ![Head(workers[w].pending)] = workers[w].register + 1]
    /\ workers' = [workers EXCEPT ![w].loaded = FALSE,
                                  ![w].pending = Tail(workers[w].pending)]
    /\ UNCHANGED <<outputs, last_call>>
    /\ WorkerUnchanged

(***************************************************************************)
(* Specification SpecWorkers: the sets of a discovery, two or more,        *)
(* processed by one worker each, from zeroed counters.                     *)
(***************************************************************************)
InitWorkers ==
    /\ texture_dir_exists = TRUE
    /\ \E tree \in SUBSET PackFiles :
          /\ Cardinality(tree) <= MaxFiles
          /\ files \in [tree -> {Flat, Corrupt}]
    /\ texture_files \in Glob("png")
    /\ texture_index = Len(texture_files) + 1
    /\ pbr_sets = DetectPbrTextures(texture_files)
    /\ Len(pbr_sets.keys) >= 2
    /\ workers = [w \in 1..Len(pbr_sets.keys) |-> Worker(w)]
    /\ texture_mappings = None
    /\ unwritable \in {{}, {JsonPath(<<"a">>, "blocks")}}
    /\ outputs = <<>>
    /\ conversion_stats = ZeroStats
    /\ last_call = NoCall
    /\ pc = "workers"
    /\ batch = NoBatch
    /\ runs = 1
    /\ previous_sets = NoResult
    /\ pack = NoPack

NextWorkers ==
    \E w \in DOMAIN workers : WorkerCall(w) \/ WorkerLoad(w) \/ WorkerStore(w)

SpecWorkers == InitWorkers /\ [][NextWorkers]_vars

(***************************************************************************)
(* JE2BEConverter.convert_resource_pack (src/je2be_converter.py).  The     *)
(* stages other than the PBR stage are modelled by their outcome: they     *)
(* complete, they report a failure, or they raise.  The PBR stage is the   *)
(* batch above.  A return inside the try block runs the finally clause     *)
(* before the call returns.                                                *)
(***************************************************************************)
TempDir == "je2be_conversion_1"

AllStages == <<"validate", "workspace", "extract", "manifest", "textures", "pbr",
               "assets", "mcpack", "report">>

\* The call of convert_resource_pack with its two flags (lines 49-52).
PackCalled(validate_input, enable_pbr) ==
    [stage |-> "validate", validate_input |-> validate_input,
     enable_pbr |-> enable_pbr, stages |-> <<>>, failed |-> "none",
     returned |-> FALSE, result |-> FALSE,
     temp_dirs |-> <<>>, on_disk |-> {}, attempted |-> {}]

\* The stage is over and the next one is reached.
PackGoes(stage, next) ==
    [pack EXCEPT !.stage = next, !.stages = Append(@, stage)]

\* `return False` in the try block, or the except clause (lines 152-154):
\* the result is held while the finally clause runs.
PackFails(stage) ==
    [pack EXCEPT !.stage = "finally", !.stages = Append(@, stage),
                 !.failed = stage, !.result = FALSE]

PackUnchanged ==
    UNCHANGED <<files, outputs, unwritable, conversion_stats, last_call, texture_files,
                texture_index, pbr_sets, pc, texture_dir_exists, texture_mappings,
                batch, runs, previous_sets, workers>>

\* Lines 53-60: the optional validation of the input pack.
PackValidate ==
    /\ pack.stage = "validate"
    /\ \E outcome \in IF pack.validate_input THEN {"ok", "fail", "raise"} ELSE {"ok"} :
          pack' = IF outcome = "ok" THEN PackGoes("validate", "workspace")
                  ELSE PackFails("validate")
    /\ PackUnchanged

\* Lines 62-69 and create_temp_directory: the temporary directory is
\* created and tracked; mkdtemp or a later mkdir may raise.
PackWorkspace ==
    /\ pack.stage = "workspace"
    /\ \E outcome \in {"ok", "mkdtemp_raises", "mkdir_raises"} :
          pack' = IF outcome = "mkdtemp_raises" THEN PackFails("workspace")
                  ELSE [(IF outcome = "ok" THEN PackGoes("workspace", "extract")
                         ELSE PackFails("workspace"))
                        EXCEPT !.temp_dirs = Append(@, TempDir),
                               !.on_disk = @ \cup {TempDir}]
    /\ PackUnchanged

\* Lines 71-75: extract_java_pack returns the minecraft directory or None.
PackExtract ==
    /\ pack.stage = "extract"
    /\ \E outcome \in {"ok", "fail"} :
          pack' = IF outcome = "ok" THEN PackGoes("extract", "manifest")
                  ELSE PackFails("extract")
    /\ PackUnchanged

\* Lines 77-91: pack info, Bedrock structure and manifest.
PackManifest ==
    /\ pack.stage = "manifest"
    /\ \E outcome \in {"ok", "fail", "raise"} :
          pack' = IF outcome = "ok" THEN PackGoes("manifest", "textures")
                  ELSE PackFails("manifest")
    /\ PackUnchanged

\* Lines 93-99: the texture converter.
PackTextures ==
    /\ pack.stage = "textures"
    /\ \E outcome \in {"ok", "raise"} :
          pack' = IF outcome = "ok" THEN PackGoes("textures", "pbr")
                  ELSE PackFails("textures")
    /\ PackUnchanged

\* Lines 101-108: convert_pbr_textures is called when PBR is enabled.
PackPbr ==
    /\ pack.stage = "pbr"
    /\ IF pack.enable_pbr
       THEN pack' = [pack EXCEPT !.stage = "pbr_batch"] /\ pc' = "idle"
       ELSE pack' = PackGoes("pbr", "assets") /\ pc' = pc
    /\ UNCHANGED <<files, outputs, unwritable, conversion_stats, last_call, texture_files,
                   texture_index, pbr_sets, texture_dir_exists, texture_mappings,
                   batch, runs, previous_sets, workers>>

\* Lines 108-109: the batch has returned its statistics, which are logged.
PackPbrStatsFailsOnErrors ==
    /\ pack.stage = "pbr_batch"
    /\ pc = "returned"
    /\ pack' = IF conversion_stats.errors = 0 THEN PackGoes("pbr", "assets")
               ELSE PackFails("pbr")
    /\ PackUnchanged

PackPbrStats ==
    /\ pack.stage = "pbr_batch"
    /\ pc = "returned"
    /\ pack' = PackGoes("pbr", "assets")
    /\ PackUnchanged

\* Lines 111-135: missing mappings, the json files, language files, other
\* assets, essentials and RTX fixes.
PackAssets ==
    /\ pack.stage = "assets"
    /\ \E outcome \in {"ok", "raise"} :
          pack' = IF outcome = "ok" THEN PackGoes("assets", "mcpack")
                  ELSE PackFails("assets")
    /\ PackUnchanged

\* Lines 137-141: create_mcpack returns True or False.
PackMcpack ==
    /\ pack.stage = "mcpack"
    /\ \E outcome \in {"ok", "fail"} :
          pack' = IF outcome = "ok" THEN PackGoes("mcpack", "report")
                  ELSE PackFails("mcpack")
    /\ PackUnchanged

\* Lines 143-150: the report, which catches its own exceptions; return True.
PackReport ==
    /\ pack.stage = "report"
    /\ pack' = [PackGoes("report", "finally") EXCEPT !.result = TRUE]
    /\ PackUnchanged

\* Lines 155-156 and cleanup_temp_directories: rmtree is attempted on each
\* tracked directory that exists and may fail; the list is cleared; the
\* held result is returned.
PackCleanupKeepsList ==
    /\ pack.stage = "finally"
    /\ LET tracked == {pack.temp_dirs[n] : n \in DOMAIN pack.temp_dirs} \cap pack.on_disk
       IN \E removed \in SUBSET tracked :
             pack' = [pack EXCEPT !.stage = "returned", !.returned = TRUE,
                                  !.on_disk = @ \ removed,
                                  !.attempted = @ \cup tracked]
    /\ PackUnchanged

PackCleanup ==
    /\ pack.stage = "finally"
    /\ LET tracked == {pack.temp_dirs[n] : n \in DOMAIN pack.temp_dirs} \cap pack.on_disk
       IN \E removed \in SUBSET tracked :
             pack' = [pack EXCEPT !.stage = "returned", !.returned = TRUE,
                                  !.on_disk = @ \ removed,
                                  !.attempted = @ \cup tracked,
                                  !.temp_dirs = <<>>]
    /\ PackUnchanged

(***************************************************************************)
(* Specification SpecPack: one call of convert_resource_pack, with and     *)
(* without validation and PBR, over source trees whose PBR maps may not    *)
(* decode, with every outcome of the other stages.                         *)
(***************************************************************************)
InitPack ==
    /\ texture_dir_exists \in BOOLEAN
    /\ \E tree \in SUBSET PackFiles :
          /\ Cardinality(tree) <= MaxFiles
          /\ texture_dir_exists \/ tree = {}
          /\ files \in [tree -> {Flat, Corrupt}]
    /\ texture_mappings \in {Mapping(<<>>), Mapping(Name_a_png :> Name_x_png)}
    /\ unwritable \in {{}, {JsonPath(<<"x">>, "blocks")}}
    /\ outputs = <<>>
    /\ conversion_stats = ZeroStats
    /\ last_call = NoCall
    /\ texture_files = <<>>
    /\ texture_index = 1
    /\ pbr_sets = EmptyDict
    /\ pc = "constructed"
    /\ batch = NoBatch
    /\ runs = 0
    /\ previous_sets = NoResult
    /\ workers = NoWorkers
    /\ pack \in {PackCalled(validate_input, enable_pbr) :
                    validate_input \in BOOLEAN, enable_pbr \in BOOLEAN}

NextPack ==
    \/ PackValidate \/ PackWorkspace \/ PackExtract \/ PackManifest \/ PackTextures
    \/ PackPbr \/ PbrDetect \/ PbrSpecular \/ PbrNormal \/ PbrDescriptor
    \/ PackPbrStats \/ PackAssets \/ PackMcpack \/ PackReport \/ PackCleanup

SpecPack == InitPack /\ [][NextPack]_vars

(***************************************************************************)
(* Claims about convert_specular_to_mer, under SpecMer.                    *)
(***************************************************************************)

\* The last call was a convert_specular_to_mer that returned True.
MerDone == last_call.op = "convert_specular_to_mer" /\ last_call.result

\* The source image and the image written by the last successful call.
SourceImage == files[last_call.src]
WrittenImage == outputs[last_call.dst]

\* The alpha of a source pixel: a 3-channel source counts as alpha 255.
AlphaOf(px) == IF Len(px) = 4 THEN px[4] ELSE MaxByte

\* z is num/den rounded to the nearest integer and clamped to [0,255].
IsRounded(z, num, den) ==
    LET lo == 2 * den * z - den
        hi == 2 * den * z + den
    IN /\ z \in Byte
       /\ (z = 0 \/ lo <= 2 * num)
       /\ (z = MaxByte \/ 2 * num < hi)

\* C1: the roughness byte (output B) is round(((1 - R/255)^2) * 255),
\* clamped to [0,255], for every smoothness R.
C1_RoughnessIsRounded ==
    MerDone =>
        \A p \in DOMAIN SourceImage.pixels :
            IsRounded(WrittenImage.pixels[p][3],
                      (MaxByte - SourceImage.pixels[p][1])
                        * (MaxByte - SourceImage.pixels[p][1]),
                      MaxByte)

\* C2: the metalness byte (output R) is 255 when G >= 230, G when
\* 10 < G < 230, and 0 when G <= 10.
C2_Metalness ==
    MerDone =>
        \A p \in DOMAIN SourceImage.pixels :
            LET G == SourceImage.pixels[p][2]
                m == WrittenImage.pixels[p][1]
            IN /\ (G >= 230 => m = 255)
               /\ (10 < G /\ G < 230 => m = G)
               /\ (G <= 10 => m = 0)

C2_Witness ==
    /\ MerDone
    /\ SourceImage.pixels[<<1, 1>>][2] = 10
    /\ WrittenImage.pixels[<<1, 1>>][1] = 0

\* C3: the emissive byte (output G) is A when A < 255 and 0 when A = 255;
\* A = 0 gives 0 and A = 200 gives 200.
C3_Emissive ==
    MerDone =>
        \A p \in DOMAIN SourceImage.pixels :
            LET A == AlphaOf(SourceImage.pixels[p])
                e == WrittenImage.pixels[p][2]
            IN /\ (A < 255 => e = A)
               /\ (A = 255 => e = 0)
               /\ (A = 0 => e = 0)
               /\ (A = 200 => e = 200)

C3_Witness ==
    /\ MerDone
    /\ SourceImage.mode = "RGBA"
    /\ SourceImage.pixels[<<1, 1>>][4] = 255
    /\ WrittenImage.pixels[<<1, 1>>][2] = 0

\* C6 as stated: for all R1 < R2 the roughness byte for R2 is lower than
\* that for R1; roughness(255) = 0 and roughness(0) = 255.
C6_RoughnessStrictlyDecreasing ==
    MerDone =>
        \A p \in DOMAIN SourceImage.pixels :
            LET R1 == SourceImage.pixels[p][1]
                b1 == WrittenImage.pixels[p][3]
            IN /\ \A R2 \in Byte : R1 < R2 => RoughnessBedrock(R2) < b1
               /\ (R1 = 255 => b1 = 0)
               /\ (R1 = 0 => b1 = 255)

\* C6 amended: for all R1 < R2 the roughness byte for R2 is not higher
\* than that for R1; roughness(255) = 0 and roughness(0) = 255.
C6_RoughnessNonIncreasing ==
    MerDone =>
        \A p \in DOMAIN SourceImage.pixels :
            LET R1 == SourceImage.pixels[p][1]
                b1 == WrittenImage.pixels[p][3]
            IN /\ \A R2 \in Byte : R1 < R2 => RoughnessBedrock(R2) <= b1
               /\ (R1 = 255 => b1 = 0)
               /\ (R1 = 0 => b1 = 255)

C6_Witness ==
    /\ MerDone
    /\ SourceImage.pixels[<<1, 1>>][1] = 254
    /\ WrittenImage.pixels[<<1, 1>>][3] = RoughnessBedrock(255)

(***************************************************************************)
(* Claims about convert_normal_map, under SpecNormal and SpecImage.        *)
(***************************************************************************)

\* The last call was a convert_normal_map that returned True.
NormalDone == last_call.op = "convert_normal_map" /\ last_call.result

\* z is round(((nz + 1) / 2) * 255) for nz = sqrt(max(0, 1 - nx^2 - ny^2)),
\* nx = (X/255)*2 - 1, ny = (Y/255)*2 - 1.  With D = 255^2 * max(0, ...)
\* the value is (sqrt(D) + 255) / 2, so z is its rounding iff
\* 2z - 256 <= sqrt(D) < 2z - 254.
IsRoundedZ(z, X, Y) ==
    LET a == 2 * X - 255
        b == 2 * Y - 255
        D == IF 255 * 255 - a * a - b * b > 0 THEN 255 * 255 - a * a - b * b ELSE 0
    IN /\ z \in Byte
       /\ (2 * z - 256 <= 0 \/ (2 * z - 256) * (2 * z - 256) <= D)
       /\ 2 * z - 254 > 0
       /\ (2 * z - 254) * (2 * z - 254) > D

\* C4: for every (X, Y) the Z byte written is round(((nz + 1)/2) * 255).
C4_NormalZIsRounded ==
    NormalDone =>
        \A p \in DOMAIN SourceImage.pixels :
            IsRoundedZ(WrittenImage.pixels[p][3],
                       SourceImage.pixels[p][1], SourceImage.pixels[p][2])

\* C5: Z = 255 is written for X = 128, Y = 128, and Z = 128 for X = 255,
\* Y = 128.
C5_NormalZExamples ==
    NormalDone =>
        \A p \in DOMAIN SourceImage.pixels :
            LET X == SourceImage.pixels[p][1]
                Y == SourceImage.pixels[p][2]
                Z == WrittenImage.pixels[p][3]
            IN /\ (X = 128 /\ Y = 128 => Z = 255)
               /\ (X = 255 /\ Y = 128 => Z = 128)

\* C8: for every pixel the R and G channels written equal the X and Y
\* channels of the input pixel.
C8_NormalXYPassThrough ==
    NormalDone =>
        \A p \in DOMAIN SourceImage.pixels :
            /\ WrittenImage.pixels[p][1] = SourceImage.pixels[p][1]
            /\ WrittenImage.pixels[p][2] = SourceImage.pixels[p][2]

C8_Witness ==
    /\ NormalDone
    /\ SourceImage.pixels[<<1, 1>>][1] = 10
    /\ SourceImage.pixels[<<1, 1>>][2] = 200
    /\ WrittenImage.pixels[<<1, 1>>][1] = 10
    /\ WrittenImage.pixels[<<1, 1>>][2] = 200

\* The (B, A) values a variant of a normal map may carry in a pixel.
AOHeightSamples == {<<0, 7>>, <<255, 255>>, <<64, 0>>}

\* The RGBA images that agree with img on every pixel's X and Y.
VariantsInAOHeight(img) ==
    {[mode |-> "RGBA", width |-> img.width, height |-> img.height,
      pixels |-> [p \in DOMAIN img.pixels |->
                    <<img.pixels[p][1], img.pixels[p][2], v[p][1], v[p][2]>>]] :
        v \in [DOMAIN img.pixels -> AOHeightSamples]}

\* C7: an input that agrees with the converted one on every pixel's X and
\* Y, whatever its B and A channels, converts to the image written.
C7_AOHeightDiscarded ==
    NormalDone =>
        \A other \in VariantsInAOHeight(SourceImage) :
            BedrockNormal(other) = WrittenImage

C7_Witness ==
    /\ NormalDone
    /\ SourceImage.mode = "RGBA"
    /\ SourceImage.width * SourceImage.height >= 2
    /\ \E other \in VariantsInAOHeight(SourceImage) :
          /\ \A p \in DOMAIN SourceImage.pixels :
                /\ other.pixels[p][3] /= SourceImage.pixels[p][3]
                /\ other.pixels[p][4] /= SourceImage.pixels[p][4]
          /\ BedrockNormal(other) = WrittenImage

\* The B values a variant of a specular map may carry in a pixel.
PorositySamples == {0, 64, MaxByte}

\* The images of the same mode that agree with img on every pixel's R, G
\* and A.
VariantsInB(img) ==
    {[img EXCEPT !.pixels = [p \in DOMAIN img.pixels |->
                               [img.pixels[p] EXCEPT ![3] = v[p]]]] :
        v \in [DOMAIN img.pixels -> PorositySamples]}

\* C29: two specular inputs that agree on every pixel's R, G and A but
\* differ in B produce identical MER images: every input that differs
\* from the converted one only in B converts to the image written.
C29_PorosityDiscarded ==
    MerDone =>
        \A other \in VariantsInB(SourceImage) :
            MerArray(other) = WrittenImage

C29_Witness ==
    /\ MerDone
    /\ SourceImage.width * SourceImage.height >= 2
    /\ \E other \in VariantsInB(SourceImage) :
          /\ \A p \in DOMAIN SourceImage.pixels :
                other.pixels[p][3] /= SourceImage.pixels[p][3]
          /\ other.pixels[<<1, 1>>][1] = SourceImage.pixels[<<1, 1>>][1]
          /\ MerArray(other) = WrittenImage

\* C9: for every input that decodes, with 3 or 4 channels, the image
\* written by either transcoder has the input's width and height and
\* exactly 3 channels in every pixel.
C9_DimensionsAndChannels ==
    (MerDone \/ NormalDone) =>
        /\ WrittenImage.width = SourceImage.width
        /\ WrittenImage.height = SourceImage.height
        /\ DOMAIN WrittenImage.pixels =
              (1..SourceImage.height) \X (1..SourceImage.width)
        /\ WrittenImage.mode = "RGB"
        /\ \A p \in DOMAIN WrittenImage.pixels : Len(WrittenImage.pixels[p]) = 3

C9_Witness ==
    /\ NormalDone
    /\ SourceImage.mode = "RGBA"
    /\ SourceImage.width = 1 /\ SourceImage.height = 3
    /\ MerOut \in DOMAIN outputs /\ NormalOut \in DOMAIN outputs
    /\ outputs[MerOut].height = 3 /\ outputs[NormalOut].height = 3
    /\ Len(outputs[MerOut].pixels[<<3, 1>>]) = 3

\* The counters after the step differ from those before it by the
\* given amounts.
CountersGrowBy(specular, mer, normal, sets, errs) ==
    /\ conversion_stats'.specular_converted = conversion_stats.specular_converted + specular
    /\ conversion_stats'.mer_generated = conversion_stats.mer_generated + mer
    /\ conversion_stats'.normal_converted = conversion_stats.normal_converted + normal
    /\ conversion_stats'.texture_sets_created = conversion_stats.texture_sets_created + sets
    /\ conversion_stats'.errors = conversion_stats.errors + errs

\* C16: a call of convert_specular_to_mer that returns True increases
\* specular_converted by 1 and mer_generated by 1 and changes no other
\* counter; a call of convert_normal_map that returns True increases
\* normal_converted by 1 and changes no other counter.
C16_SuccessCounters ==
    [][/\ (last_call'.op = "convert_specular_to_mer" /\ last_call'.result)
              => CountersGrowBy(1, 1, 0, 0, 0)
       /\ (last_call'.op = "convert_normal_map" /\ last_call'.result)
              => CountersGrowBy(0, 0, 1, 0, 0)]_vars

C16_Witness ==
    /\ NormalDone
    /\ MerOut \in DOMAIN outputs
    /\ conversion_stats.specular_converted = 1
    /\ conversion_stats.mer_generated = 1
    /\ conversion_stats.normal_converted = 1
    /\ conversion_stats.texture_sets_created = 0
    /\ conversion_stats.errors = 0

(***************************************************************************)
(* Claims about detect_pbr_textures, under SpecDetect.                     *)
(***************************************************************************)

\* stem = prefix \o suffix for some prefix.
HasSuffix(stem, suffix) ==
    \E n \in 0..Len(stem) : stem = SubSeq(stem, 1, n) \o suffix

\* The role and the base name the claim gives a stem; role "none" for a
\* stem that is recorded nowhere.
ClaimedSlot(stem) ==
    IF HasSuffix(stem, <<"_", "s">>)
    THEN [role |-> "specular", base |-> SubSeq(stem, 1, Len(stem) - 2)]
    ELSE IF HasSuffix(stem, <<"_", "n">>)
    THEN [role |-> "normal", base |-> SubSeq(stem, 1, Len(stem) - 2)]
    ELSE IF \/ HasSuffix(stem, <<"_", "e">>)
            \/ HasSuffix(stem, <<"_", "r">>)
            \/ HasSuffix(stem, <<"_", "m">>)
            \/ HasSuffix(stem, <<"_", "m", "e", "r">>)
            \/ HasSuffix(stem, <<"_", "n", "o", "r", "m", "a", "l">>)
    THEN [role |-> "none", base |-> <<>>]
    ELSE [role |-> "diffuse", base |-> stem]

\* The files the loop has classified so far.
Classified == {texture_files[j] : j \in 1..(texture_index - 1)}

\* C10: during the loop of detect_pbr_textures, the file just classified
\* is recorded under the base name and the role its stem gives it, and
\* every classified file is recorded at most there: `_s` is specular and
\* `_n` normal under the stem without the suffix, `_e`, `_r`, `_m`, `_mer`
\* and `_normal` are recorded nowhere, every other stem is diffuse under
\* the full stem.
C10_ClassifiedByStem ==
    pc = "loop" =>
        /\ \A f \in Classified :
              \A base \in DOMAIN pbr_sets.val :
                  \A role \in DOMAIN pbr_sets.val[base] :
                      pbr_sets.val[base][role] = f =>
                          ClaimedSlot(f.stem) = [role |-> role, base |-> base]
        /\ texture_index > 1 =>
              LET f == texture_files[texture_index - 1]
                  slot == ClaimedSlot(f.stem)
              IN slot.role /= "none" =>
                    /\ slot.base \in DOMAIN pbr_sets.val
                    /\ slot.role \in DOMAIN pbr_sets.val[slot.base]
                    /\ pbr_sets.val[slot.base][slot.role] = f
        /\ \A f \in DOMAIN files : f.ext \notin {"png", "jpg", "jpeg", "tga"} =>
              f \notin Classified

C10_Witness ==
    /\ pc = "loop"
    /\ texture_index = 4
    /\ {f.stem : f \in Classified} = {Stem_a_s_n, Stem_a_mer, Stem_as}
    /\ DOMAIN pbr_sets.val = {Stem_a_s, Stem_as}
    /\ DOMAIN pbr_sets.val[Stem_a_s] = {"normal"}
    /\ pbr_sets.val[Stem_a_s]["normal"].stem = Stem_a_s_n
    /\ DOMAIN pbr_sets.val[Stem_as] = {"diffuse"}

(***************************************************************************)
(* Claims about the result of detect_pbr_textures, under SpecDetect.       *)
(***************************************************************************)

\* The enumerated files whose stem gives them the role under the base name.
FoundAs(role, base) ==
    {f \in DOMAIN files : /\ f.ext \in {"png", "jpg", "jpeg", "tga"}
                          /\ ClaimedSlot(f.stem) = [role |-> role, base |-> base]}

\* C11: every texture set in the result of detect_pbr_textures contains
\* role specular or role normal, and a base name for which only a diffuse
\* file was found is not a key of the result.
C11_ResultSetsHavePbrRole ==
    pc = "done" =>
        /\ \A base \in DOMAIN pbr_sets.val :
              {"specular", "normal"} \cap DOMAIN pbr_sets.val[base] /= {}
        /\ \A i \in 1..Len(pbr_sets.keys) : pbr_sets.keys[i] \in DOMAIN pbr_sets.val
        /\ \A f \in DOMAIN files :
              LET base == f.stem
              IN (/\ FoundAs("diffuse", base) /= {}
                  /\ FoundAs("specular", base) = {}
                  /\ FoundAs("normal", base) = {})
                 => /\ base \notin DOMAIN pbr_sets.val
                    /\ \A i \in 1..Len(pbr_sets.keys) : pbr_sets.keys[i] /= base

C11_Witness ==
    /\ pc = "done"
    /\ FoundAs("diffuse", <<"a">>) /= {}
    /\ FoundAs("specular", <<"a">>) = {}
    /\ FoundAs("normal", <<"a">>) = {}
    /\ FoundAs("normal", <<"b">>) /= {}
    /\ DOMAIN pbr_sets.val = {<<"b">>}

\* C23: two calls of detect_pbr_textures on an unchanged tree return the
\* same set of base names, each with the same set of roles.
C23_IdempotentDiscovery ==
    (pc = "done" /\ previous_sets.given) =>
        /\ DOMAIN pbr_sets.val = DOMAIN previous_sets.sets.val
        /\ \A base \in DOMAIN pbr_sets.val :
              DOMAIN pbr_sets.val[base] = DOMAIN previous_sets.sets.val[base]

C23_Witness ==
    /\ pc = "done"
    /\ previous_sets.given
    /\ Len(pbr_sets.keys) = 2
    /\ pbr_sets.keys /= previous_sets.sets.keys
    /\ \E base \in DOMAIN pbr_sets.val : DOMAIN pbr_sets.val[base] = {"specular", "normal"}

\* C25: the iteration order of the mapping returned by
\* detect_pbr_textures is the same for the same set of files, whatever the
\* order in which the file system enumerates them: two calls on an
\* unchanged tree return the base names in the same order.
C25_DeterministicOrder ==
    (pc = "done" /\ previous_sets.given) => pbr_sets.keys = previous_sets.sets.keys

\* The positions in the enumeration of the files that the stem gives the
\* role under the base name.
EnumeratedAs(role, base) ==
    {n \in 1..Len(texture_files) :
        ClaimedSlot(texture_files[n].stem) = [role |-> role, base |-> base]}

ExtensionRank(ext) ==
    IF ext = "png" THEN 1 ELSE IF ext = "jpg" THEN 2 ELSE IF ext = "jpeg" THEN 3 ELSE 4

\* C28: when several enumerated files have the same base name and role,
\* the returned set holds for that role the one enumerated last, and no
\* file of a later extension in the order png, jpg, jpeg, tga is replaced
\* by one of an earlier extension.
C28_LastEnumeratedWins ==
    pc = "done" =>
        \A base \in DOMAIN pbr_sets.val : \A role \in DOMAIN pbr_sets.val[base] :
            /\ EnumeratedAs(role, base) /= {}
            /\ \A n \in EnumeratedAs(role, base) :
                  /\ (\A m \in EnumeratedAs(role, base) : m <= n)
                        => pbr_sets.val[base][role] = texture_files[n]
                  /\ ExtensionRank(texture_files[n].ext)
                        <= ExtensionRank(pbr_sets.val[base][role].ext)

C28_Witness ==
    /\ pc = "done"
    /\ Cardinality(EnumeratedAs("specular", <<"a">>)) = 3
    /\ pbr_sets.val[<<"a">>]["specular"].ext = "tga"
    /\ \E n \in EnumeratedAs("specular", <<"a">>) :
          texture_files[n].dir = "items" /\ n < 3

(***************************************************************************)
(* Claims about convert_pbr_textures, under SpecBatch.  After the          *)
(* descriptor step of a set the loop index is one past that set.           *)
(***************************************************************************)

\* The batch has finished the i-th discovered set.
Processed(i) == /\ pc \in {"specular", "returned"}
                /\ batch.set_index = i + 1
                /\ i \in 1..Len(pbr_sets.keys)

SetIndices == 1..Len(pbr_sets.keys)
NameOf(i) == pbr_sets.keys[i]
RolesOf(i) == DOMAIN pbr_sets.val[NameOf(i)]
FileOf(i, role) == pbr_sets.val[NameOf(i)][role]
OutputBase(i) == BedrockBaseName(NameOf(i))
MerFileOf(i) == OutputBase(i) \o <<"_", "m", "e", "r", ".", "p", "n", "g">>
NormalFileOf(i) ==
    OutputBase(i) \o <<"_", "n", "o", "r", "m", "a", "l", ".", "p", "n", "g">>
DescriptorFileOf(i) ==
    OutputBase(i) \o <<".", "t", "e", "x", "t", "u", "r", "e", "_", "s", "e", "t",
                       ".", "j", "s", "o", "n">>

\* The conversions of the i-th set that can succeed: the set has the map,
\* the map decodes and the output can be written.
SpecularOk(i) == /\ "specular" \in RolesOf(i)
                 /\ files[FileOf(i, "specular")].mode /= "corrupt"
                 /\ MerFileOf(i) \notin unwritable
NormalOk(i) == /\ "normal" \in RolesOf(i)
               /\ files[FileOf(i, "normal")].mode /= "corrupt"
               /\ NormalFileOf(i) \notin unwritable

DescriptorKeys(i) == DOMAIN outputs[DescriptorFileOf(i)]["minecraft:texture_set"]

\* C12: after convert_pbr_textures has processed a set, the descriptor it
\* wrote for the set has the key metalness_emissive_roughness exactly when
\* the set's specular conversion succeeded and the key normal exactly when
\* its normal conversion succeeded; a descriptor is attempted exactly when
\* one of the two succeeded, and the descriptor step of a set with neither
\* writes no file.
C12_DescriptorConditionality ==
    /\ [](\A i \in SetIndices : Processed(i) =>
            /\ batch.json = "written" =>
                  /\ DescriptorFileOf(i) \in DOMAIN outputs
                  /\ "metalness_emissive_roughness" \in DescriptorKeys(i)
                        <=> SpecularOk(i)
                  /\ "normal" \in DescriptorKeys(i) <=> NormalOk(i)
            /\ batch.json = "skipped" <=> (~ SpecularOk(i) /\ ~ NormalOk(i)))
    /\ [][(/\ pc = "json"
           /\ ~ SpecularOk(batch.set_index)
           /\ ~ NormalOk(batch.set_index)) => outputs' = outputs]_vars

C12_Witness ==
    /\ Processed(1)
    /\ batch.json = "written"
    /\ SpecularOk(1)
    /\ "normal" \in RolesOf(1)
    /\ ~ NormalOk(1)
    /\ DescriptorKeys(1) = {"color", "metalness_emissive_roughness"}

\* Only errors has grown, by exactly one.
OnlyErrorCounted ==
    /\ conversion_stats'.errors = conversion_stats.errors + 1
    /\ conversion_stats'.specular_converted = conversion_stats.specular_converted
    /\ conversion_stats'.mer_generated = conversion_stats.mer_generated
    /\ conversion_stats'.normal_converted = conversion_stats.normal_converted
    /\ conversion_stats'.texture_sets_created = conversion_stats.texture_sets_created

\* C14: when convert_specular_to_mer or convert_normal_map fails for an
\* image of the batch, on decoding the source or on writing the output, the
\* call returns False, errors grows by exactly 1, the other four counters
\* are unchanged, and the batch goes on: the next conversion of the loop is
\* reached and, when the batch returns, every conversion of every set that
\* could succeed has written its output.
C14_FailureIsCountedAndIsolated ==
    /\ [][(/\ pc = "specular"
           /\ "specular" \in RolesOf(batch.set_index)
           /\ ~ SpecularOk(batch.set_index))
          => /\ OnlyErrorCounted
             /\ last_call'.op = "convert_specular_to_mer"
             /\ last_call'.result = FALSE
             /\ outputs' = outputs
             /\ pc' = "normal"]_vars
    /\ [][(/\ pc = "normal"
           /\ "normal" \in RolesOf(batch.set_index)
           /\ ~ NormalOk(batch.set_index))
          => /\ OnlyErrorCounted
             /\ last_call'.op = "convert_normal_map"
             /\ last_call'.result = FALSE
             /\ outputs' = outputs
             /\ pc' = "json"]_vars
    /\ [](pc = "returned" =>
            \A i \in SetIndices :
                /\ SpecularOk(i) => MerFileOf(i) \in DOMAIN outputs
                /\ NormalOk(i) => NormalFileOf(i) \in DOMAIN outputs)

C14_Witness ==
    /\ pc = "returned"
    /\ Len(pbr_sets.keys) = 2
    /\ "specular" \in RolesOf(1)
    /\ ~ SpecularOk(1)
    /\ NormalOk(1)
    /\ SpecularOk(2)
    /\ conversion_stats.errors = 1
    /\ {NormalFileOf(1), MerFileOf(2)} \subseteq DOMAIN outputs

\* The sets whose specular file does not decode.
UndecodableSpecular ==
    {i \in SetIndices : /\ "specular" \in RolesOf(i)
                        /\ files[FileOf(i, "specular")].mode = "corrupt"}

\* The sets whose normal file does not decode.
UndecodableNormal ==
    {i \in SetIndices : /\ "normal" \in RolesOf(i)
                        /\ files[FileOf(i, "normal")].mode = "corrupt"}

\* The batch has returned from a run in which every set has a specular
\* file and every write succeeds.
C15_Scenario ==
    /\ pc = "returned"
    /\ unwritable = {}
    /\ \A i \in SetIndices : "specular" \in RolesOf(i)

\* What the batch has written and counted, for n sets of which k have a
\* specular file that does not decode.
C15_Outcome ==
    /\ \A i \in SetIndices \ UndecodableSpecular : MerFileOf(i) \in DOMAIN outputs
    /\ \A i \in SetIndices \ UndecodableNormal :
          "normal" \in RolesOf(i) => NormalFileOf(i) \in DOMAIN outputs
    /\ conversion_stats.errors = Cardinality(UndecodableSpecular)
    /\ conversion_stats.mer_generated =
          Len(pbr_sets.keys) - Cardinality(UndecodableSpecular)

\* C15 as stated: in a batch run from zeroed counters over n sets that each
\* have a specular file, of which exactly k do not decode, with every write
\* succeeding, the MER and normal outputs of the other sets are written,
\* errors is k and mer_generated is n - k.
C15_ErrorsEqualUndecodableSpecular == C15_Scenario => C15_Outcome

\* C15 amended: the same, for runs in which every normal file decodes.
C15_ErrorIsolation ==
    (C15_Scenario /\ UndecodableNormal = {}) => C15_Outcome

C15_Witness ==
    /\ C15_Scenario
    /\ UndecodableNormal = {}
    /\ Len(pbr_sets.keys) = 3
    /\ Cardinality(UndecodableSpecular) = 1
    /\ conversion_stats.errors = 1
    /\ conversion_stats.mer_generated = 2

\* C17: when the source directory does not exist, the discovery of
\* convert_pbr_textures yields an empty mapping without raising, and the
\* batch returns at once with every counter unchanged and no file written.
C17_MissingDirectory ==
    [][(~ texture_dir_exists /\ pc = "idle")
          => /\ pbr_sets'.keys = <<>>
             /\ DOMAIN pbr_sets'.val = {}
             /\ pc' = "returned"
             /\ CountersGrowBy(0, 0, 0, 0, 0)
             /\ outputs' = outputs]_vars

C17_Witness ==
    /\ ~ texture_dir_exists
    /\ pc = "returned"
    /\ pbr_sets.keys = <<>>
    /\ DOMAIN outputs = {}

\* The output paths the batch writes for the i-th set.
WrittenFor(i) ==
    (IF SpecularOk(i) THEN {MerFileOf(i)} ELSE {})
    \cup (IF NormalOk(i) THEN {NormalFileOf(i)} ELSE {})
    \cup (IF (SpecularOk(i) \/ NormalOk(i)) /\ DescriptorFileOf(i) \notin unwritable
          THEN {DescriptorFileOf(i)} ELSE {})

\* C18: within one run of convert_pbr_textures, no MER file, normal file
\* or descriptor file is written for two distinct discovered sets, whatever
\* the texture_mappings table.
C18_DistinctOutputPaths ==
    pc /= "idle" =>
        \A i, j \in SetIndices : i /= j => WrittenFor(i) \cap WrittenFor(j) = {}

\* Path.stem of a file name: the name up to its last dot.
Dots(name) == {n \in 1..Len(name) : name[n] = "."}
StemOf(name) ==
    IF Dots(name) = {} THEN name
    ELSE SubSeq(name, 1, (CHOOSE n \in Dots(name) : \A m \in Dots(name) : m <= n) - 1)

\* C19: the descriptor written for a set names the files the batch wrote
\* for it: the file is <base>.texture_set.json, its color is the set's
\* output base name, its metalness_emissive_roughness (when present) is
\* the base name followed by _mer and is the stem of the MER file written,
\* and its normal (when present) is the base name followed by _normal and
\* is the stem of the normal file written.
C19_DescriptorNamesWrittenFiles ==
    \A i \in SetIndices : (Processed(i) /\ batch.json = "written") =>
        /\ DescriptorFileOf(i) \in DOMAIN outputs
        /\ LET descriptor == outputs[DescriptorFileOf(i)]
               texture_set == descriptor["minecraft:texture_set"]
           IN /\ descriptor["format_version"] = "1.16.100"
              /\ texture_set["color"] = OutputBase(i)
              /\ "metalness_emissive_roughness" \in DOMAIN texture_set =>
                    /\ texture_set["metalness_emissive_roughness"]
                          = OutputBase(i) \o <<"_", "m", "e", "r">>
                    /\ \E path \in DOMAIN outputs :
                          /\ path = MerFileOf(i)
                          /\ StemOf(path) = texture_set["metalness_emissive_roughness"]
              /\ "normal" \in DOMAIN texture_set =>
                    /\ texture_set["normal"]
                          = OutputBase(i) \o <<"_", "n", "o", "r", "m", "a", "l">>
                    /\ \E path \in DOMAIN outputs :
                          /\ path = NormalFileOf(i)
                          /\ StemOf(path) = texture_set["normal"]

C19_Witness ==
    /\ Processed(1)
    /\ batch.json = "written"
    /\ NameOf(1) = <<"a">>
    /\ OutputBase(1) = <<"x">>
    /\ DOMAIN outputs[DescriptorFileOf(1)]["minecraft:texture_set"]
          = {"color", "metalness_emissive_roughness", "normal"}

\* The output base name the claim gives the i-th set.
ClaimedBase(i) ==
    LET entry == NameOf(i) \o <<".", "p", "n", "g">>
    IN IF texture_mappings.given /\ entry \in DOMAIN texture_mappings.table
       THEN StemOf(texture_mappings.table[entry])
       ELSE NameOf(i)

\* C20: the MER and normal files of a set are written under the discovered
\* base name when the mapping table is absent or has no entry for the set,
\* and under the mapped file name without its extension when the table has
\* the entry <set name>.png.
C20_OutputBaseName ==
    /\ (pc = "normal" /\ "specular" \in RolesOf(batch.set_index)) =>
          last_call.dst
             = ClaimedBase(batch.set_index) \o <<"_", "m", "e", "r", ".", "p", "n", "g">>
    /\ (pc = "json" /\ "normal" \in RolesOf(batch.set_index)) =>
          last_call.dst
             = ClaimedBase(batch.set_index)
                  \o <<"_", "n", "o", "r", "m", "a", "l", ".", "p", "n", "g">>

(***************************************************************************)
(* Claims about create_texture_set_json, under SpecDescriptor.             *)
(***************************************************************************)

\* The descriptor files written so far.
Descriptors == {path \in DOMAIN outputs : "minecraft:texture_set" \in DOMAIN outputs[path]}

\* C13: create_texture_set_json called with has_mer and has_normal both
\* false emits nothing, so no descriptor file that names neither a MER map
\* nor a normal map is ever written.
C13_NothingEmittedWithoutMaps ==
    \A path \in Descriptors :
        DOMAIN outputs[path]["minecraft:texture_set"] /= {"color"}

(***************************************************************************)
(* Claims about the reuse of a converter, under SpecReuse.                 *)
(***************************************************************************)

\* What one run over the discovered sets counts: a conversion of a set
\* succeeds when the set has the map, the map decodes and the output can
\* be written; it fails otherwise; the descriptor is attempted when one
\* conversion of the set succeeded.
SetsWhere(P(_)) == Cardinality({i \in SetIndices : P(i)})
SpecularFails(i) == "specular" \in RolesOf(i) /\ ~ SpecularOk(i)
NormalFails(i) == "normal" \in RolesOf(i) /\ ~ NormalOk(i)
DescriptorOk(i) ==
    (SpecularOk(i) \/ NormalOk(i)) /\ DescriptorFileOf(i) \notin unwritable
DescriptorFails(i) ==
    (SpecularOk(i) \/ NormalOk(i)) /\ DescriptorFileOf(i) \in unwritable

EventsOfOneRun ==
    [specular_converted |-> SetsWhere(SpecularOk),
     normal_converted |-> SetsWhere(NormalOk),
     mer_generated |-> SetsWhere(SpecularOk),
     texture_sets_created |-> SetsWhere(DescriptorOk),
     errors |-> SetsWhere(SpecularFails) + SetsWhere(NormalFails)
                   + SetsWhere(DescriptorFails)]

\* C22: reset_stats sets all five counters to 0; the statistics returned
\* by a run that starts right after it count the events of that run only;
\* without a reset they count the events of every run since the counters
\* were last zero.
C22_ResetStats ==
    /\ last_call.op = "reset_stats" =>
          /\ conversion_stats.specular_converted = 0
          /\ conversion_stats.normal_converted = 0
          /\ conversion_stats.mer_generated = 0
          /\ conversion_stats.texture_sets_created = 0
          /\ conversion_stats.errors = 0
    /\ (pc = "returned" /\ runs >= 1) =>
          \A counter \in DOMAIN EventsOfOneRun :
              conversion_stats[counter] = runs * EventsOfOneRun[counter]

C22_Witness ==
    /\ last_call.op = "reset_stats"
    /\ pc = "returned"
    /\ DOMAIN outputs /= {}
    /\ runs = 0
    /\ conversion_stats.mer_generated = 0
    /\ conversion_stats.errors = 0

(***************************************************************************)
(* Claims about the descriptor counter, under SpecBatch.                   *)
(***************************************************************************)

\* C24: texture_sets_created grows by exactly 1 in a step that writes a
\* descriptor file and in no other step; a descriptor write that fails
\* adds 1 to errors instead and leaves the derived images in place; so
\* when a batch started from zeroed counters returns, the counter is the
\* number of sets with a written descriptor, which is at most the number
\* of sets with a successful conversion.
C24_TextureSetsCreated ==
    /\ [][IF /\ pc = "json"
             /\ last_call'.op = "create_texture_set_json"
             /\ last_call'.result
          THEN /\ last_call'.dst \in DOMAIN outputs'
               /\ "minecraft:texture_set" \in DOMAIN outputs'[last_call'.dst]
               /\ conversion_stats'.texture_sets_created
                     = conversion_stats.texture_sets_created + 1
          ELSE /\ conversion_stats'.texture_sets_created
                     = conversion_stats.texture_sets_created
               /\ (pc = "json" /\ last_call'.op = "create_texture_set_json")
                     => /\ conversion_stats'.errors = conversion_stats.errors + 1
                        /\ outputs' = outputs]_vars
    /\ [](pc = "returned" =>
            /\ conversion_stats.texture_sets_created = SetsWhere(DescriptorOk)
            /\ conversion_stats.texture_sets_created
                  <= Cardinality({i \in SetIndices : SpecularOk(i) \/ NormalOk(i)}))

C24_Witness ==
    /\ pc = "returned"
    /\ Len(pbr_sets.keys) = 2
    /\ DescriptorFails(1)
    /\ DescriptorOk(2)
    /\ MerFileOf(1) \in DOMAIN outputs
    /\ DescriptorFileOf(1) \notin DOMAIN outputs
    /\ conversion_stats.texture_sets_created = 1
    /\ conversion_stats.errors = 1

(***************************************************************************)
(* Claims about arbitrary call sequences, under SpecCalls.                 *)
(***************************************************************************)

\* C27: in every state reachable by any sequence of
\* convert_specular_to_mer, convert_normal_map, create_texture_set_json,
\* convert_pbr_textures, generate_mer_from_individual_maps and reset_stats
\* calls, specular_converted equals mer_generated.
C27_SpecularEqualsMer ==
    conversion_stats.specular_converted = conversion_stats.mer_generated

\* A MER map was generated from individual maps on a converter that had
\* already converted a specular map, and both counters still agree.
C27_Witness ==
    /\ last_call.op = "generate_mer_from_individual_maps"
    /\ last_call.result
    /\ last_call.dst \in DOMAIN outputs
    /\ conversion_stats.specular_converted >= 1
    /\ conversion_stats.normal_converted >= 1

(***************************************************************************)
(* Claims about concurrent workers, under SpecWorkers.                     *)
(***************************************************************************)

AllWorkersDone ==
    \A w \in DOMAIN workers : workers[w].step = "done" /\ workers[w].pending = <<>>

RanThrough(last) ==
    \E n \in 1..Len(pack.stages) :
        /\ pack.stages[n] = last
        /\ \A m \in 1..n : pack.stages[m] = <<"validate", "workspace", "extract",
                                              "manifest", "textures", "pbr", "assets",
                                              "mcpack", "report">>[m]

\* C21: PBR conversion errors never make the pack conversion fail:
\* whatever the number of failed PBR images, convert_resource_pack returns
\* True exactly when no other stage failed or raised, the PBR stage itself
\* is never the one that fails, and when no later stage fails or raises
\* every stage up to the writing of the .mcpack has run.
C21_PbrErrorsAreNotFatal ==
    pack.returned =>
        /\ pack.result <=> pack.failed = "none"
        /\ pack.failed /= "pbr"
        /\ pack.failed = "none" => RanThrough("mcpack")
        /\ pack.failed \in {"assets", "mcpack"} => RanThrough(pack.failed)

C21_Witness ==
    /\ pack.returned
    /\ pack.result = TRUE
    /\ pack.enable_pbr
    /\ conversion_stats.errors = 2
    /\ RanThrough("mcpack")

\* C30: on every exit path of convert_resource_pack (a failed validation,
\* extraction, manifest or mcpack, an exception in any stage, or success),
\* every temporary directory created during the call has been removed or
\* its removal has been attempted, and the pack manager's list of tracked
\* temporary directories is empty when the call returns.
C30_TempDirsCleanedUp ==
    pack.returned =>
        /\ pack.temp_dirs = <<>>
        /\ \A temp_dir \in pack.on_disk : temp_dir \in pack.attempted
        /\ pack.attempted \subseteq {TempDir}
        /\ pack.failed \notin {"none", "validate", "workspace"} =>
              TempDir \in pack.attempted

\* The call returned after an exception in the workspace stage, with the
\* temporary directory created and its removal attempted without success.
C30_Witness ==
    /\ pack.returned
    /\ pack.failed = "workspace"
    /\ pack.result = FALSE
    /\ pack.temp_dirs = <<>>
    /\ TempDir \in pack.on_disk
    /\ TempDir \in pack.attempted

=============================================================================
